---- MODULE Spec2Model ----
(***************************************************************************)
(* Secrets management core of kozmoai: SecretsService (CRUD, decrypt,      *)
(* YAML import), its audit trail and its per-user decrypt rate limiter.    *)
(*                                                                         *)
(* The outcome of a call is a function of the tables and the limiter state *)
(* it finds (the ...Result operators); the actions apply these functions.  *)
(*   Spec        - every service call runs to completion as one step       *)
(*   SpecService - create and decrypt calls on one service instance of any *)
(*                 configured limit, with the clock                        *)
(*   SpecAsync   - calls of concurrent callers, each with its own database *)
(*                 session, interleave at their await points and may be    *)
(*                 cancelled there                                         *)
(*   SpecAsyncDecrypt - the same for create and decrypt calls only, on a   *)
(*                 service instance of any configured limit                *)
(***************************************************************************)
EXTENDS Integers, Sequences, FiniteSets, TLC

(***************************************************************************)
(* Bounds and input domains                                                *)
(***************************************************************************)
MaxSecrets == 2
MaxAudit == 3
MaxRateLimit == 1
WindowSeconds == 1

\* time.time() is read in ticks of 1/TicksPerSecond second
TicksPerSecond == 2
MaxTime == WindowSeconds * TicksPerSecond + 1

Users == {"u1", "u2"}
Names == {"A", "B"}
Values == {"v1"}
Origins == {"10.0.0.1"}
EncryptionKeys == {"key1", "key2"}
Calls == {"c1", "c2"}

\* SecretProfile and SecretCategory (the model draws inputs from two members of each)
SecretProfile == {"default", "development", "staging", "production"}
SecretCategory == {"AWS", "Azure", "GCP", "Database", "SSH", "Custom"}
AuditAction == {"CREATE", "UPDATE", "DELETE", "DECRYPT"}
Profiles == {"default", "production"}
Categories == {"Custom"}

None == "None"
MASK == "********"

(***************************************************************************)
(* State                                                                   *)
(***************************************************************************)
VARIABLES
    secrets,           \* committed rows of the secret table
    audit,             \* committed rows of the audit_log table, in insertion order
    decrypt_requests,  \* SecretsService._decrypt_requests: user -> timestamps
    rate_limit_max,    \* SecretsService.rate_limit_max
    encryption_key,    \* key material of the service's EncryptionService
    now,               \* time.time(), in ticks
    next_id,           \* number of secret ids handed out so far
    calls              \* in-flight calls and their sessions (SpecAsync)

vars == <<secrets, audit, decrypt_requests, rate_limit_max, encryption_key,
          now, next_id, calls>>

(***************************************************************************)
(* Encryption engine: a Fernet token is bound to the key that made it      *)
(***************************************************************************)
Encrypt(key, plaintext) == [k |-> key, p |-> plaintext]

DecryptOk(key, token) == token.k = key

Decrypt(key, token) == token.p

\* the text of a token as stored in encrypted_value: urlsafe base64 of the
\* version byte 0x80 and the high bytes of the time ("gAAAAA"), then the rest of
\* the time, the IV, the AES blocks and the HMAC, which "#" stands for
TokenText(token) == "gAAAAA" \o "#"

(***************************************************************************)
(* Queries                                                                 *)
(***************************************************************************)
\* Result.scalar_one_or_none(): no row, the row, or MultipleResultsFound
ScalarOneOrNone(rows) ==
    [error |-> IF Cardinality(rows) > 1 THEN "MultipleResultsFound" ELSE None,
     found |-> Cardinality(rows) = 1,
     rows |-> rows]

TheRow(res) == CHOOSE r \in res.rows : TRUE

\* fault model: the lookup by id forgets the owner filter
_get_secret_by_id_any_owner(rows, user_id, secret_id) ==
    LET res == ScalarOneOrNone({r \in rows : r.id = secret_id})
    IN  IF res.error = None /\ ~res.found
        THEN [res EXCEPT !.error = "SecretNotFoundError"]
        ELSE res

_get_secret_by_id(rows, user_id, secret_id) ==
    LET res == ScalarOneOrNone({r \in rows : r.id = secret_id /\ r.user_id = user_id})
    IN  IF res.error = None /\ ~res.found
        THEN [res EXCEPT !.error = "SecretNotFoundError"]
        ELSE res

_validate_unique_name(rows, user_id, name, profile, exclude_id) ==
    LET matching == {r \in rows : /\ r.user_id = user_id
                                  /\ r.name = name
                                  /\ r.profile = profile
                                  /\ (exclude_id # 0 => r.id # exclude_id)}
        res == ScalarOneOrNone(matching)
    IN  IF res.error # None THEN res.error
        ELSE IF res.found THEN "DuplicateSecretError"
        ELSE None

_find_secret_by_name_and_profile(rows, user_id, name, profile) ==
    ScalarOneOrNone({r \in rows : /\ r.user_id = user_id
                                  /\ r.name = name
                                  /\ r.profile = profile})

\* fault model: the read carries the decrypted value in place of the mask
_to_secret_read_unmasked(secret) ==
    [id |-> secret.id, name |-> secret.name, key |-> secret.key,
     masked_value |-> secret.encrypted_value.p, category |-> secret.category,
     profile |-> secret.profile, created_at |-> secret.created_at]

_to_secret_read(secret) ==
    [id |-> secret.id, name |-> secret.name, key |-> secret.key,
     masked_value |-> MASK, category |-> secret.category,
     profile |-> secret.profile, created_at |-> secret.created_at]

\* fault model: the origin address of the call is not recorded
_log_audit_without_origin(user_id, action_type, secret_id, ip_address) ==
    [user_id |-> user_id, action_type |-> action_type,
     secret_id |-> secret_id, ip_address |-> "unknown", timestamp |-> now]

\* the AuditLog row _log_audit adds to the session; the database stamps it
_log_audit(user_id, action_type, secret_id, ip_address) ==
    [user_id |-> user_id, action_type |-> action_type,
     secret_id |-> secret_id, ip_address |-> ip_address, timestamp |-> now]

\* the Secret row create_secret builds
NewSecret(id, user_id, data, key, t) ==
    [id |-> id, user_id |-> user_id, name |-> data.name, key |-> data.key,
     encrypted_value |-> Encrypt(key, data.value),
     category |-> data.category, profile |-> data.profile, created_at |-> t]

\* SecretCreate inputs (the key is the name, as in import_yaml's rows)
SecretCreate ==
    {[name |-> n, key |-> n, value |-> v, category |-> c, profile |-> p] :
        n \in Names, v \in Values, c \in Categories, p \in Profiles}

\* SecretUpdate inputs: None is an absent field
SecretUpdate ==
    [name : Names \cup {None}, key : {None}, value : Values \cup {None},
     category : {None}, profile : Profiles \cup {None}]

IdleCall == [pc |-> "idle"]

(***************************************************************************)
(* Initial states                                                          *)
(***************************************************************************)
InitTables ==
    /\ secrets = {}
    /\ audit = <<>>
    /\ decrypt_requests = [u \in Users |-> <<>>]
    /\ encryption_key = "key1"
    /\ now = 0
    /\ next_id = 0
    /\ calls = [c \in Calls |-> IdleCall]

\* a service that admits one decrypt per window
Init == InitTables /\ rate_limit_max = 1

InitService == InitTables /\ rate_limit_max \in 0..MaxRateLimit

(***************************************************************************)
(* Rate limiter                                                            *)
(***************************************************************************)
SeqMin(seq) == CHOOSE m \in {seq[i] : i \in 1..Len(seq)} :
                   \A i \in 1..Len(seq) : m <= seq[i]

rate_limit_window == WindowSeconds * TicksPerSecond

\* fault model: the limit is compared with > where the code has >=
_check_rate_limit_one_more(requests, t, max_requests, window) ==
    LET window_start == t - window
        pruned == SelectSeq(requests, LAMBDA ts : ts > window_start)
    IN  IF Len(pruned) > max_requests
        THEN [error |-> "RateLimitExceededError",
              retry_after |-> ((SeqMin(pruned) + window - t) \div TicksPerSecond) + 1,
              requests |-> pruned]
        ELSE [error |-> None, retry_after |-> 0, requests |-> Append(pruned, t)]

\* fault model: retry_after is the whole seconds left, not rounded up
_check_rate_limit_whole_seconds(requests, t, max_requests, window) ==
    LET window_start == t - window
        pruned == SelectSeq(requests, LAMBDA ts : ts > window_start)
    IN  IF Len(pruned) >= max_requests
        THEN IF pruned = <<>>
             THEN [error |-> "ValueError", retry_after |-> 0, requests |-> pruned]
             ELSE [error |-> "RateLimitExceededError",
                   retry_after |-> (SeqMin(pruned) + window - t) \div TicksPerSecond,
                   requests |-> pruned]
        ELSE [error |-> None, retry_after |-> 0, requests |-> Append(pruned, t)]

\* SecretsService._check_rate_limit: the pruned list is stored before the check
_check_rate_limit(requests, t, max_requests, window) ==
    LET window_start == t - window
        pruned == SelectSeq(requests, LAMBDA ts : ts > window_start)
    IN  IF Len(pruned) >= max_requests
        THEN IF pruned = <<>>
             THEN [error |-> "ValueError", retry_after |-> 0, requests |-> pruned]
             ELSE [error |-> "RateLimitExceededError",
                   retry_after |-> ((SeqMin(pruned) + window - t) \div TicksPerSecond) + 1,
                   requests |-> pruned]
        ELSE [error |-> None, retry_after |-> 0, requests |-> Append(pruned, t)]

(***************************************************************************)
(* Service calls as functions of the tables                                *)
(***************************************************************************)
\* SecretsService.create_secret
CreateSecretResult(rows, log, nid, user_id, data, ip_address, key, t) ==
    LET dup == _validate_unique_name(rows, user_id, data.name, data.profile, 0)
        secret == NewSecret(nid + 1, user_id, data, key, t)
    IN  IF dup # None
        THEN [error |-> dup, rows |-> rows, log |-> log, nid |-> nid, ret |-> None]
        ELSE [error |-> None,
              rows |-> rows \cup {secret},
              log |-> Append(log, _log_audit(user_id, "CREATE", secret.id, ip_address)),
              nid |-> nid + 1,
              ret |-> _to_secret_read(secret)]

\* fault model: a patch that carries a value does not re-encrypt it
ApplyUpdate_keep_value(secret, data, key) ==
    [secret EXCEPT
        !.name = IF data.name # None THEN data.name ELSE @,
        !.key = IF data.key # None THEN data.key ELSE @,
        !.category = IF data.category # None THEN data.category ELSE @,
        !.profile = IF data.profile # None THEN data.profile ELSE @]

\* fault model: every field of the patch is assigned, absent ones too
ApplyUpdate_assign_absent(secret, data, key) ==
    [secret EXCEPT
        !.name = data.name,
        !.key = data.key,
        !.category = data.category,
        !.profile = data.profile,
        !.encrypted_value = IF data.value # None THEN Encrypt(key, data.value) ELSE @]

\* the fields update_secret assigns
ApplyUpdate(secret, data, key) ==
    [secret EXCEPT
        !.name = IF data.name # None THEN data.name ELSE @,
        !.key = IF data.key # None THEN data.key ELSE @,
        !.category = IF data.category # None THEN data.category ELSE @,
        !.profile = IF data.profile # None THEN data.profile ELSE @,
        !.encrypted_value = IF data.value # None THEN Encrypt(key, data.value) ELSE @]

\* the uniqueness check update_secret makes
UpdateNameCheck(rows, secret, user_id, data) ==
    IF data.name # None /\ data.name # secret.name
    THEN _validate_unique_name(rows, user_id, data.name,
                               IF data.profile # None THEN data.profile ELSE secret.profile,
                               secret.id)
    ELSE None

\* SecretsService.update_secret
UpdateSecretResult(rows, log, user_id, secret_id, data, ip_address, key) ==
    LET got == _get_secret_by_id(rows, user_id, secret_id)
        secret == TheRow(got)
        dup == UpdateNameCheck(rows, secret, user_id, data)
        updated == ApplyUpdate(secret, data, key)
    IN  IF got.error # None
        THEN [error |-> got.error, rows |-> rows, log |-> log, ret |-> None]
        ELSE IF dup # None
        THEN [error |-> dup, rows |-> rows, log |-> log, ret |-> None]
        ELSE [error |-> None,
              rows |-> (rows \ {secret}) \cup {updated},
              log |-> Append(log, _log_audit(user_id, "UPDATE", secret_id, ip_address)),
              ret |-> _to_secret_read(updated)]

\* fault model: deleting a secret also deletes the audit entries that refer to it
DeleteSecretResult_purge_entries(rows, log, user_id, secret_id, ip_address) ==
    LET got == _get_secret_by_id(rows, user_id, secret_id)
        kept == SelectSeq(log, LAMBDA e : e.secret_id # secret_id)
    IN  IF got.error # None
        THEN [error |-> got.error, rows |-> rows, log |-> log]
        ELSE [error |-> None,
              rows |-> rows \ {TheRow(got)},
              log |-> Append(kept, _log_audit(user_id, "DELETE", secret_id, ip_address))]

\* fault model: delete_secret adds the DELETE entry before it looks the secret up
DeleteSecretResult_log_first(rows, log, user_id, secret_id, ip_address) ==
    LET got == _get_secret_by_id(rows, user_id, secret_id)
        logged == Append(log, _log_audit(user_id, "DELETE", secret_id, ip_address))
    IN  IF got.error # None
        THEN [error |-> got.error, rows |-> rows, log |-> logged]
        ELSE [error |-> None, rows |-> rows \ {TheRow(got)}, log |-> logged]

\* SecretsService.delete_secret
DeleteSecretResult(rows, log, user_id, secret_id, ip_address) ==
    LET got == _get_secret_by_id(rows, user_id, secret_id)
    IN  IF got.error # None
        THEN [error |-> got.error, rows |-> rows, log |-> log]
        ELSE [error |-> None,
              rows |-> rows \ {TheRow(got)},
              log |-> Append(log, _log_audit(user_id, "DELETE", secret_id, ip_address))]

\* SecretsService.decrypt_secret, after the rate limiter admitted the call
DecryptSecretResult(rows, log, user_id, secret_id, ip_address, key) ==
    LET got == _get_secret_by_id(rows, user_id, secret_id)
        secret == TheRow(got)
    IN  IF got.error # None
        THEN [error |-> got.error, log |-> log, ret |-> None]
        ELSE IF ~DecryptOk(key, secret.encrypted_value)
        THEN [error |-> "DecryptionError", log |-> log, ret |-> None]
        ELSE [error |-> None,
              log |-> Append(log, _log_audit(user_id, "DECRYPT", secret_id, ip_address)),
              ret |-> [read |-> _to_secret_read(secret),
                       value |-> Decrypt(key, secret.encrypted_value)]]

(***************************************************************************)
(* YAML import                                                             *)
(***************************************************************************)
\* yaml.safe_load's result, as far as import_yaml inspects it
Cred(key, is_str, value) == [key |-> key, is_str |-> is_str, value |-> value]

Section(profile_name, is_dict, credentials) ==
    [profile_name |-> profile_name, is_dict |-> is_dict, credentials |-> credentials]

YamlDoc(parses, is_dict, sections) ==
    [parses |-> parses, is_dict |-> is_dict, sections |-> sections]

EmptyImport(rows, log, nid) ==
    [error |-> None, rows |-> rows, log |-> log, nid |-> nid,
     imported |-> 0, updated |-> 0, failed |-> 0, errors |-> <<>>]

ImportFailed(st, message) ==
    [st EXCEPT !.failed = @ + 1, !.errors = Append(@, message)]

\* one pass of the credential loop of import_yaml
ImportCredential(st, user_id, profile, cred, ip_address, key, t) ==
    LET existing == _find_secret_by_name_and_profile(st.rows, user_id, cred.key, profile)
        row == TheRow(existing)
        created == CreateSecretResult(st.rows, st.log, st.nid, user_id,
                       [name |-> cred.key, key |-> cred.key, value |-> cred.value,
                        category |-> "Custom", profile |-> profile],
                       ip_address, key, t)
    IN  IF ~cred.is_str
        THEN ImportFailed(st, <<"must be a string", cred.key, profile>>)
        ELSE IF existing.error # None
        THEN ImportFailed(st, <<"Failed to import", cred.key, profile>>)
        ELSE IF existing.found
        THEN [st EXCEPT
                !.rows = (@ \ {row}) \cup
                         {[row EXCEPT !.encrypted_value = Encrypt(key, cred.value)]},
                !.log = Append(@, _log_audit(user_id, "UPDATE", row.id, ip_address)),
                !.updated = @ + 1]
        ELSE IF created.error # None
        THEN ImportFailed(st, <<"Failed to import", cred.key, profile>>)
        ELSE [st EXCEPT !.rows = created.rows, !.log = created.log,
                        !.nid = created.nid, !.imported = @ + 1]

RECURSIVE ImportCredentials(_, _, _, _, _, _, _)
ImportCredentials(st, user_id, profile, credentials, ip_address, key, t) ==
    IF credentials = <<>> THEN st
    ELSE ImportCredentials(
             ImportCredential(st, user_id, profile, Head(credentials), ip_address, key, t),
             user_id, profile, Tail(credentials), ip_address, key, t)

\* fault model: the first failure ends the import, later sections are skipped
ImportSection_stop_on_failure(st, user_id, section, ip_address, key, t) ==
    IF st.failed > 0
    THEN st
    ELSE IF section.profile_name \notin SecretProfile
    THEN ImportFailed(st, <<"Invalid profile name", section.profile_name>>)
    ELSE IF ~section.is_dict
    THEN ImportFailed(st, <<"must contain a dictionary", section.profile_name>>)
    ELSE ImportCredentials(st, user_id, section.profile_name, section.credentials,
                           ip_address, key, t)

\* one pass of the profile loop of import_yaml
ImportSection(st, user_id, section, ip_address, key, t) ==
    IF section.profile_name \notin SecretProfile
    THEN ImportFailed(st, <<"Invalid profile name", section.profile_name>>)
    ELSE IF ~section.is_dict
    THEN ImportFailed(st, <<"must contain a dictionary", section.profile_name>>)
    ELSE ImportCredentials(st, user_id, section.profile_name, section.credentials,
                           ip_address, key, t)

RECURSIVE ImportSections(_, _, _, _, _, _)
ImportSections(st, user_id, sections, ip_address, key, t) ==
    IF sections = <<>> THEN st
    ELSE ImportSections(ImportSection(st, user_id, Head(sections), ip_address, key, t),
                        user_id, Tail(sections), ip_address, key, t)

\* fault model: a root that is not a mapping is taken as an empty document
ImportYamlResult_lenient_root(rows, log, nid, user_id, doc, ip_address, key, t) ==
    IF ~doc.parses
    THEN [EmptyImport(rows, log, nid) EXCEPT !.error = "YAMLImportError"]
    ELSE ImportSections(EmptyImport(rows, log, nid), user_id, doc.sections,
                        ip_address, key, t)

\* SecretsService.import_yaml
ImportYamlResult(rows, log, nid, user_id, doc, ip_address, key, t) ==
    IF ~doc.parses \/ ~doc.is_dict
    THEN [EmptyImport(rows, log, nid) EXCEPT !.error = "YAMLImportError"]
    ELSE ImportSections(EmptyImport(rows, log, nid), user_id, doc.sections,
                        ip_address, key, t)

(***************************************************************************)
(* Whole calls                                                             *)
(***************************************************************************)
create_secret(user_id, data, ip_address) ==
    LET res == CreateSecretResult(secrets, audit, next_id, user_id, data,
                                  ip_address, encryption_key, now)
    IN  /\ res.nid <= MaxSecrets
        /\ Len(res.log) <= MaxAudit
        /\ secrets' = res.rows
        /\ audit' = res.log
        /\ next_id' = res.nid
        /\ UNCHANGED <<decrypt_requests, rate_limit_max, encryption_key, now, calls>>

GetSecretResult(rows, user_id, secret_id) ==
    LET got == _get_secret_by_id(rows, user_id, secret_id)
    IN  [error |-> got.error,
         ret |-> {_to_secret_read(r) : r \in got.rows}]

\* fault model: a read is counted by the rate limiter like a decrypt
get_secret_rate_limited(user_id, secret_id) ==
    /\ GetSecretResult(secrets, user_id, secret_id).error \in
           {None, "SecretNotFoundError"}
    /\ decrypt_requests' =
           [decrypt_requests EXCEPT ![user_id] =
               _check_rate_limit(@, now, rate_limit_max, rate_limit_window).requests]
    /\ UNCHANGED <<secrets, audit, rate_limit_max, encryption_key, now, next_id, calls>>

get_secret(user_id, secret_id) ==
    /\ GetSecretResult(secrets, user_id, secret_id).error \in
           {None, "SecretNotFoundError"}
    /\ UNCHANGED vars

\* list_secrets with no search text; category and profile are None when not given
ListSecretsResult(rows, user_id, category, profile) ==
    {_to_secret_read(r) : r \in {x \in rows : /\ x.user_id = user_id
                                               /\ (category # None => x.category = category)
                                               /\ (profile # None => x.profile = profile)}}

list_secrets(user_id, category, profile) ==
    /\ ListSecretsResult(secrets, user_id, category, profile) \subseteq
           {_to_secret_read(r) : r \in secrets}
    /\ UNCHANGED vars

update_secret(user_id, secret_id, data, ip_address) ==
    LET res == UpdateSecretResult(secrets, audit, user_id, secret_id, data,
                                  ip_address, encryption_key)
    IN  /\ Len(res.log) <= MaxAudit
        /\ secrets' = res.rows
        /\ audit' = res.log
        /\ UNCHANGED <<decrypt_requests, rate_limit_max, encryption_key, now,
                       next_id, calls>>

delete_secret(user_id, secret_id, ip_address) ==
    LET res == DeleteSecretResult(secrets, audit, user_id, secret_id, ip_address)
    IN  /\ Len(res.log) <= MaxAudit
        /\ secrets' = res.rows
        /\ audit' = res.log
        /\ UNCHANGED <<decrypt_requests, rate_limit_max, encryption_key, now,
                       next_id, calls>>

\* fault model: the rate limiter is consulted before the privilege check
DecryptCallResult_limit_first(rows, log, requests, user_id, secret_id, is_admin, ip_address, key, t, max_requests) ==
    LET rl == _check_rate_limit(requests, t, max_requests, rate_limit_window)
        res == DecryptSecretResult(rows, log, user_id, secret_id, ip_address, key)
    IN  IF rl.error # None
        THEN [error |-> rl.error, retry_after |-> rl.retry_after,
              requests |-> rl.requests, log |-> log, ret |-> None]
        ELSE IF ~is_admin
        THEN [error |-> "AdminRequiredError", retry_after |-> 0,
              requests |-> rl.requests, log |-> log, ret |-> None]
        ELSE [error |-> res.error, retry_after |-> 0,
              requests |-> rl.requests, log |-> res.log, ret |-> res.ret]

\* fault model: the request is recorded once the secret was found and decrypted
DecryptCallResult_record_on_success(rows, log, requests, user_id, secret_id, is_admin, ip_address, key, t, max_requests) ==
    LET rl == _check_rate_limit(requests, t, max_requests, rate_limit_window)
        res == DecryptSecretResult(rows, log, user_id, secret_id, ip_address, key)
    IN  IF ~is_admin
        THEN [error |-> "AdminRequiredError", retry_after |-> 0,
              requests |-> requests, log |-> log, ret |-> None]
        ELSE IF rl.error # None
        THEN [error |-> rl.error, retry_after |-> rl.retry_after,
              requests |-> rl.requests, log |-> log, ret |-> None]
        ELSE [error |-> res.error, retry_after |-> 0,
              requests |-> IF res.error = None THEN rl.requests
                           ELSE SubSeq(rl.requests, 1, Len(rl.requests) - 1),
              log |-> res.log, ret |-> res.ret]

\* SecretsService.decrypt_secret
DecryptCallResult(rows, log, requests, user_id, secret_id, is_admin, ip_address, key, t, max_requests) ==
    LET rl == _check_rate_limit(requests, t, max_requests, rate_limit_window)
        res == DecryptSecretResult(rows, log, user_id, secret_id, ip_address, key)
    IN  IF ~is_admin
        THEN [error |-> "AdminRequiredError", retry_after |-> 0,
              requests |-> requests, log |-> log, ret |-> None]
        ELSE IF rl.error # None
        THEN [error |-> rl.error, retry_after |-> rl.retry_after,
              requests |-> rl.requests, log |-> log, ret |-> None]
        ELSE [error |-> res.error, retry_after |-> 0,
              requests |-> rl.requests, log |-> res.log, ret |-> res.ret]

\* fault model: the limiter keeps one list of timestamps for all principals
decrypt_secret_shared_window(user_id, secret_id, is_admin, ip_address) ==
    LET res == DecryptCallResult(secrets, audit, decrypt_requests[user_id], user_id,
                                 secret_id, is_admin, ip_address, encryption_key,
                                 now, rate_limit_max)
    IN  /\ Len(res.log) <= MaxAudit
        /\ decrypt_requests' = [u \in Users |-> res.requests]
        /\ audit' = res.log
        /\ UNCHANGED <<secrets, rate_limit_max, encryption_key, now, next_id, calls>>

decrypt_secret(user_id, secret_id, is_admin, ip_address) ==
    LET res == DecryptCallResult(secrets, audit, decrypt_requests[user_id], user_id,
                                 secret_id, is_admin, ip_address, encryption_key,
                                 now, rate_limit_max)
    IN  /\ Len(res.log) <= MaxAudit
        /\ decrypt_requests' = [decrypt_requests EXCEPT ![user_id] = res.requests]
        /\ audit' = res.log
        /\ UNCHANGED <<secrets, rate_limit_max, encryption_key, now, next_id, calls>>

import_yaml(user_id, doc, ip_address) ==
    LET res == ImportYamlResult(secrets, audit, next_id, user_id, doc, ip_address,
                                encryption_key, now)
    IN  /\ res.nid <= MaxSecrets
        /\ Len(res.log) <= MaxAudit
        /\ secrets' = res.rows
        /\ audit' = res.log
        /\ next_id' = res.nid
        /\ UNCHANGED <<decrypt_requests, rate_limit_max, encryption_key, now, calls>>

Tick ==
    /\ now < MaxTime
    /\ now' = now + 1
    /\ UNCHANGED <<secrets, audit, decrypt_requests, rate_limit_max,
                   encryption_key, next_id, calls>>

SecretIds == 1..MaxSecrets

(***************************************************************************)
(* Documents given to import_yaml                                          *)
(***************************************************************************)
ValidDocs ==
    {YamlDoc(TRUE, TRUE, <<Section("default", TRUE, <<Cred(n, TRUE, v)>>)>>) :
        n \in Names, v \in Values}
    \cup
    {YamlDoc(TRUE, TRUE, <<Section("default", TRUE,
                                   <<Cred("A", TRUE, v), Cred("B", TRUE, v)>>)>>) :
        v \in Values}
    \cup
    {YamlDoc(TRUE, TRUE, <<Section("production", TRUE, <<Cred("A", TRUE, v)>>),
                           Section("default", TRUE, <<Cred("A", TRUE, v)>>)>>) :
        v \in Values}

InvalidDocs ==
    { YamlDoc(FALSE, FALSE, <<>>),
      YamlDoc(TRUE, FALSE, <<>>),
      YamlDoc(TRUE, TRUE, <<Section("bogus", TRUE, <<Cred("A", TRUE, "v1")>>),
                            Section("default", FALSE, <<>>),
                            Section("production", TRUE, <<Cred("A", FALSE, "5"),
                                                          Cred("B", TRUE, "v1")>>)>>) }

Docs == ValidDocs \cup InvalidDocs

(***************************************************************************)
(* Specifications                                                          *)
(***************************************************************************)
ServiceCalls(creates, patches, docs) ==
    \/ \E u \in Users, d \in creates, ip \in Origins : create_secret(u, d, ip)
    \/ \E u \in Users, id \in SecretIds : get_secret(u, id)
    \/ \E u \in Users, c \in Categories \cup {None}, p \in Profiles \cup {None} :
           list_secrets(u, c, p)
    \/ \E u \in Users, id \in SecretIds, d \in patches, ip \in Origins :
           update_secret(u, id, d, ip)
    \/ \E u \in Users, id \in SecretIds, ip \in Origins : delete_secret(u, id, ip)
    \/ \E u \in Users, id \in SecretIds, a \in BOOLEAN, ip \in Origins :
           decrypt_secret(u, id, a, ip)
    \/ \E u \in Users, doc \in docs, ip \in Origins : import_yaml(u, doc, ip)

\* patches of the name and the profile, and the patch of the value alone
Patches == {d \in SecretUpdate : d.value = None \/ (d.name = None /\ d.profile = None)}

\* the patches the calls of Spec are made with: of the name, of the profile, of both,
\* of the value, and the empty one
CallPatches ==
    {d \in Patches : \/ d.name = None
                     \/ d.profile = None
                     \/ (d.name = "B" /\ d.profile = "production")}

Next == ServiceCalls(SecretCreate, CallPatches, Docs)

Spec == Init /\ [][Next]_vars

\* decrypt calls of both users on a store of secrets u1 creates (named "A", default
\* profile), with the clock, on one service instance of any configured limit
ServiceCreates == {d \in SecretCreate : d.name = "A" /\ d.profile = "default"}

NextService ==
    \/ \E d \in ServiceCreates, ip \in Origins : create_secret("u1", d, ip)
    \/ \E u \in Users, id \in SecretIds, a \in BOOLEAN, ip \in Origins :
           decrypt_secret(u, id, a, ip)
    \/ Tick

SpecService == InitService /\ [][NextService]_vars

(***************************************************************************)
(* SpecAsync: calls interleaving at their await points                     *)
(*                                                                         *)
(* A call holds its own session: the rows it loaded, the rows and audit    *)
(* entries it added and has not committed. pc names the await the call is  *)
(* suspended at; a step completes that await and runs the code up to the   *)
(* next one.                                                               *)
(***************************************************************************)
Call(pc, op, user_id, secret_id, data, is_admin, ip_address) ==
    [pc |-> pc, op |-> op, user_id |-> user_id, secret_id |-> secret_id,
     data |-> data, is_admin |-> is_admin, ip_address |-> ip_address,
     error |-> None,
     loaded |-> {},        \* the Secret object the call works on
     added |-> <<>>,       \* AuditLog objects added to the session, uncommitted
     dirty |-> {},         \* Secret objects changed in the session, uncommitted
     rest |-> <<>>,        \* the credentials an import has not finished yet
     committed |-> 0,      \* commits of the call's session that wrote something
     slots |-> -1,         \* free slots the rate limiter saw, -1 if it was not asked
     checked_at |-> -1]    \* when it was asked

NoData == [name |-> None, key |-> None, value |-> None, category |-> None,
           profile |-> None]

Finish(call, error) ==
    [call EXCEPT !.pc = "done", !.error = error, !.added = <<>>, !.loaded = {},
                 !.dirty = {}, !.rest = <<>>, !.data = NoData]

\* the SecretCreate import_yaml builds for a credential
ImportData(cred, profile) ==
    [name |-> cred.key, key |-> cred.key, value |-> cred.value,
     category |-> "Custom", profile |-> profile]

\* import_yaml goes on to the next credential, or to its commit after the last
ImportNext(call) ==
    IF Len(call.rest) <= 1
    THEN [call EXCEPT !.pc = "import_commit", !.rest = <<>>, !.loaded = {},
                      !.secret_id = 0, !.data = NoData]
    ELSE [call EXCEPT !.pc = "find", !.rest = Tail(@), !.loaded = {},
                      !.secret_id = 0,
                      !.data = ImportData(call.rest[2], call.data.profile)]

\* the rows after the session's changed objects are written
WriteDirty(rows, dirty) ==
    {r \in rows : r.id \notin {d.id : d \in dirty}}
    \cup {d \in dirty : d.id \in {r.id : r \in rows}}

\* ---- create_secret ----
BeginCreate(c, user_id, data, ip_address) ==
    /\ calls[c].pc = "idle"
    /\ calls' = [calls EXCEPT ![c] = Call("validate", "create", user_id, 0, data,
                                          FALSE, ip_address)]
    /\ UNCHANGED <<secrets, audit, decrypt_requests, rate_limit_max, encryption_key,
                   now, next_id>>

\* await _validate_unique_name; then the Secret is built and added
CreateValidate(c) ==
    LET call == calls[c]
        dup == _validate_unique_name(secrets, call.user_id, call.data.name,
                                     call.data.profile, 0)
        secret == NewSecret(next_id + 1, call.user_id, call.data, encryption_key, now)
    IN  /\ call.pc = "validate"
        /\ IF dup # None
           THEN /\ calls' = [calls EXCEPT ![c] =
                       IF call.op = "import" THEN ImportNext(call)
                       ELSE Finish(call, dup)]
                /\ UNCHANGED next_id
           ELSE /\ next_id < MaxSecrets
                /\ next_id' = next_id + 1
                /\ calls' = [calls EXCEPT ![c] =
                       [call EXCEPT !.pc = "commit_secret", !.secret_id = secret.id,
                                    !.loaded = {secret}]]
        /\ UNCHANGED <<secrets, audit, decrypt_requests, rate_limit_max,
                       encryption_key, now>>

\* await session.commit(): the secret row is committed, and with it whatever
\* else the session holds (the pending updates of an import and their entries)
CreateCommitSecret(c) ==
    LET call == calls[c]
    IN  /\ call.pc = "commit_secret"
        /\ Len(audit) + Len(call.added) <= MaxAudit
        /\ secrets' = WriteDirty(secrets, call.dirty) \cup call.loaded
        /\ audit' = audit \o call.added
        /\ calls' = [calls EXCEPT ![c] =
               [call EXCEPT !.pc = "refresh", !.added = <<>>, !.dirty = {},
                            !.committed = @ + 1]]
        /\ UNCHANGED <<decrypt_requests, rate_limit_max, encryption_key,
                       now, next_id>>

\* await session.refresh(secret); then _log_audit adds the CREATE entry
CreateRefresh(c) ==
    LET call == calls[c]
    IN  /\ call.pc = "refresh"
        /\ calls' = [calls EXCEPT ![c] =
               [call EXCEPT !.pc = "commit_audit",
                            !.added = <<_log_audit(call.user_id, "CREATE",
                                                   call.secret_id, call.ip_address)>>]]
        /\ UNCHANGED <<secrets, audit, decrypt_requests, rate_limit_max,
                       encryption_key, now, next_id>>

\* await session.commit(): the audit entry is committed
CreateCommitAudit(c) ==
    LET call == calls[c]
    IN  /\ call.pc = "commit_audit"
        /\ Len(audit) < MaxAudit
        /\ audit' = audit \o call.added
        /\ calls' = [calls EXCEPT ![c] = [call EXCEPT !.pc = "refresh_last",
                                                      !.added = <<>>,
                                                      !.committed = @ + 1]]
        /\ UNCHANGED <<secrets, decrypt_requests, rate_limit_max, encryption_key,
                       now, next_id>>

\* await session.refresh(secret); the call returns, to import_yaml when that
\* made it
CreateReturn(c) ==
    LET call == calls[c]
    IN  /\ call.pc = "refresh_last"
        /\ calls' = [calls EXCEPT ![c] =
               IF call.op = "import" THEN ImportNext(call) ELSE Finish(call, None)]
        /\ UNCHANGED <<secrets, audit, decrypt_requests, rate_limit_max,
                       encryption_key, now, next_id>>

\* ---- import_yaml of one section of string credentials ----
BeginImport(c, user_id, profile, credentials, ip_address) ==
    /\ calls[c].pc = "idle"
    /\ calls' = [calls EXCEPT ![c] =
           [Call("find", "import", user_id, 0,
                 ImportData(Head(credentials), profile), FALSE, ip_address)
            EXCEPT !.rest = credentials]]
    /\ UNCHANGED <<secrets, audit, decrypt_requests, rate_limit_max, encryption_key,
                   now, next_id>>

\* await _find_secret_by_name_and_profile; an existing secret gets the new value
\* and an UPDATE entry in the session, otherwise create_secret is entered
ImportFind(c) ==
    LET call == calls[c]
        existing == _find_secret_by_name_and_profile(secrets, call.user_id,
                                                     call.data.name, call.data.profile)
        row == TheRow(existing)
    IN  /\ call.pc = "find"
        /\ call.op = "import"
        /\ calls' = [calls EXCEPT ![c] =
               IF existing.error # None THEN ImportNext(call)
               ELSE IF existing.found
               THEN ImportNext(
                        [call EXCEPT
                           !.dirty = {d \in @ : d.id # row.id} \cup
                               {[row EXCEPT !.encrypted_value =
                                     Encrypt(encryption_key, call.data.value)]},
                           !.added = Append(@, _log_audit(call.user_id, "UPDATE",
                                                          row.id, call.ip_address))])
               ELSE [call EXCEPT !.pc = "validate"]]
        /\ UNCHANGED <<secrets, audit, decrypt_requests, rate_limit_max,
                       encryption_key, now, next_id>>

\* await session.commit() at the end of import_yaml
ImportCommit(c) ==
    LET call == calls[c]
        wrote == call.dirty # {} \/ call.added # <<>>
    IN  /\ call.pc = "import_commit"
        /\ Len(audit) + Len(call.added) <= MaxAudit
        /\ secrets' = WriteDirty(secrets, call.dirty)
        /\ audit' = audit \o call.added
        /\ calls' = [calls EXCEPT ![c] =
               Finish([call EXCEPT !.committed = IF wrote THEN @ + 1 ELSE @], None)]
        /\ UNCHANGED <<decrypt_requests, rate_limit_max, encryption_key, now, next_id>>

\* ---- decrypt_secret ----
\* fault model: the limiter checks before the await and records the request after it
BeginDecrypt_record_later(c, user_id, secret_id, is_admin, ip_address) ==
    LET call == Call("get", "decrypt", user_id, secret_id, NoData, is_admin,
                     ip_address)
        pruned == SelectSeq(decrypt_requests[user_id],
                            LAMBDA ts : ts > now - rate_limit_window)
        rl == _check_rate_limit(decrypt_requests[user_id], now, rate_limit_max,
                                rate_limit_window)
        asked == [call EXCEPT !.slots = rate_limit_max - Len(pruned),
                              !.checked_at = now]
    IN  /\ calls[c].pc = "idle"
        /\ IF ~is_admin
           THEN /\ calls' = [calls EXCEPT ![c] = Finish(call, "AdminRequiredError")]
                /\ UNCHANGED decrypt_requests
           ELSE /\ decrypt_requests' = [decrypt_requests EXCEPT ![user_id] = pruned]
                /\ calls' = [calls EXCEPT ![c] =
                       IF rl.error # None THEN Finish(asked, rl.error) ELSE asked]
        /\ UNCHANGED <<secrets, audit, rate_limit_max, encryption_key, now, next_id>>

\* the code before the first await: the privilege check and the rate limiter
BeginDecrypt(c, user_id, secret_id, is_admin, ip_address) ==
    LET call == Call("get", "decrypt", user_id, secret_id, NoData, is_admin,
                     ip_address)
        rl == _check_rate_limit(decrypt_requests[user_id], now, rate_limit_max,
                                rate_limit_window)
        asked == [call EXCEPT !.slots = rate_limit_max - Len(SelectSeq(
                                  decrypt_requests[user_id],
                                  LAMBDA ts : ts > now - rate_limit_window)),
                              !.checked_at = now]
    IN  /\ calls[c].pc = "idle"
        /\ IF ~is_admin
           THEN /\ calls' = [calls EXCEPT ![c] = Finish(call, "AdminRequiredError")]
                /\ UNCHANGED decrypt_requests
           ELSE /\ decrypt_requests' = [decrypt_requests EXCEPT ![user_id] = rl.requests]
                /\ calls' = [calls EXCEPT ![c] =
                       IF rl.error # None THEN Finish(asked, rl.error) ELSE asked]
        /\ UNCHANGED <<secrets, audit, rate_limit_max, encryption_key, now, next_id>>

\* await _get_secret_by_id; then the value is decrypted and _log_audit adds DECRYPT
DecryptGet(c) ==
    LET call == calls[c]
        res == DecryptSecretResult(secrets, <<>>, call.user_id, call.secret_id,
                                   call.ip_address, encryption_key)
    IN  /\ call.pc = "get"
        /\ call.op = "decrypt"
        /\ calls' = [calls EXCEPT ![c] =
               IF res.error # None THEN Finish(call, res.error)
               ELSE [call EXCEPT !.pc = "commit", !.added = res.log]]
        /\ UNCHANGED <<secrets, audit, decrypt_requests, rate_limit_max,
                       encryption_key, now, next_id>>

\* ---- update_secret (patches that keep the name) and delete_secret ----
BeginUpdate(c, user_id, secret_id, data, ip_address) ==
    /\ calls[c].pc = "idle"
    /\ calls' = [calls EXCEPT ![c] = Call("get", "update", user_id, secret_id, data,
                                          FALSE, ip_address)]
    /\ UNCHANGED <<secrets, audit, decrypt_requests, rate_limit_max, encryption_key,
                   now, next_id>>

BeginDelete(c, user_id, secret_id, ip_address) ==
    /\ calls[c].pc = "idle"
    /\ calls' = [calls EXCEPT ![c] = Call("get", "delete", user_id, secret_id, NoData,
                                          FALSE, ip_address)]
    /\ UNCHANGED <<secrets, audit, decrypt_requests, rate_limit_max, encryption_key,
                   now, next_id>>

\* await _get_secret_by_id; update then checks the name, assigns the fields and
\* adds the UPDATE entry; delete adds the DELETE entry
MutateGet(c) ==
    LET call == calls[c]
        got == _get_secret_by_id(secrets, call.user_id, call.secret_id)
        action == IF call.op = "update" THEN "UPDATE" ELSE "DELETE"
    IN  /\ call.pc = "get"
        /\ call.op \in {"update", "delete"}
        /\ calls' = [calls EXCEPT ![c] =
               IF got.error # None THEN Finish(call, got.error)
               ELSE [call EXCEPT
                       !.pc = IF call.op = "update" THEN "commit" ELSE "delete",
                       !.loaded = got.rows,
                       !.added = <<_log_audit(call.user_id, action, call.secret_id,
                                              call.ip_address)>>]]
        /\ UNCHANGED <<secrets, audit, decrypt_requests, rate_limit_max,
                       encryption_key, now, next_id>>

\* fault model: delete commits its audit entry when the row is marked, ahead of
\* the commit that removes the row
DeleteMark_commit_entry(c) ==
    LET call == calls[c]
    IN  /\ call.pc = "delete"
        /\ Len(audit) < MaxAudit
        /\ audit' = audit \o call.added
        /\ calls' = [calls EXCEPT ![c] = [call EXCEPT !.pc = "commit", !.added = <<>>]]
        /\ UNCHANGED <<secrets, decrypt_requests, rate_limit_max,
                       encryption_key, now, next_id>>

\* await session.delete(secret)
DeleteMark(c) ==
    LET call == calls[c]
    IN  /\ call.pc = "delete"
        /\ calls' = [calls EXCEPT ![c] = [call EXCEPT !.pc = "commit"]]
        /\ UNCHANGED <<secrets, audit, decrypt_requests, rate_limit_max,
                       encryption_key, now, next_id>>

\* await session.commit() of update, delete and decrypt: the row change and the
\* audit entry are written in one transaction.  When the row is gone, the
\* UPDATE statement matches no row and the flush fails; for a DELETE statement
\* that matches no row the unit of work either fails the same way or only
\* warns and commits the entry, depending on the mapper and the dialect.
Commit(c) ==
    LET call == calls[c]
        current == {r \in secrets : r.id = call.secret_id}
    IN  /\ call.pc = "commit"
        /\ Len(audit) < MaxAudit
        /\ \/ /\ call.op # "decrypt" /\ current = {}
              /\ calls' = [calls EXCEPT ![c] = Finish(call, "StaleDataError")]
              /\ UNCHANGED <<secrets, audit>>
           \/ /\ call.op = "update" => current # {}
              /\ secrets' =
                     IF call.op = "update"
                     THEN (secrets \ current) \cup
                          {ApplyUpdate(r, call.data, encryption_key) : r \in current}
                     ELSE IF call.op = "delete" THEN secrets \ current
                     ELSE secrets
              /\ audit' = audit \o call.added
              /\ calls' = [calls EXCEPT ![c] =
                     Finish([call EXCEPT !.committed = @ + 1], None)]
        /\ UNCHANGED <<decrypt_requests, rate_limit_max, encryption_key, now, next_id>>

\* the caller cancels the call at the await it is suspended at (or the process
\* stops): the session is closed without a commit
Cancel(c) ==
    /\ calls[c].pc \notin {"idle", "done"}
    /\ calls' = [calls EXCEPT ![c] = Finish(calls[c], "CancelledError")]
    /\ UNCHANGED <<secrets, audit, decrypt_requests, rate_limit_max, encryption_key,
                   now, next_id>>

\* the caller takes the result
Return(c) ==
    /\ calls[c].pc = "done"
    /\ calls' = [calls EXCEPT ![c] = IdleCall]
    /\ UNCHANGED <<secrets, audit, decrypt_requests, rate_limit_max, encryption_key,
                   now, next_id>>

AsyncPatches == {d \in SecretUpdate : d.name = None /\ d.profile = None /\ d.value # None}

\* u1 creates, updates, deletes and decrypts as an elevated caller
NextAsync ==
    \/ \E c \in Calls, d \in ServiceCreates, ip \in Origins :
           BeginCreate(c, "u1", d, ip)
    \/ \E c \in Calls, id \in SecretIds, ip \in Origins :
           BeginDecrypt(c, "u1", id, TRUE, ip)
    \/ \E c \in Calls, id \in SecretIds, d \in AsyncPatches, ip \in Origins :
           BeginUpdate(c, "u1", id, d, ip)
    \/ \E c \in Calls, id \in SecretIds, ip \in Origins :
           BeginDelete(c, "u1", id, ip)
    \/ \E c \in Calls :
           \/ CreateValidate(c)
           \/ CreateCommitSecret(c)
           \/ CreateRefresh(c)
           \/ CreateCommitAudit(c)
           \/ CreateReturn(c)
           \/ DecryptGet(c)
           \/ MutateGet(c)
           \/ DeleteMark(c)
           \/ Commit(c)
           \/ Cancel(c)
           \/ Return(c)

SpecAsync == Init /\ [][NextAsync]_vars

\* u1 creates; both users decrypt as elevated callers, on a service of any limit
NextAsyncDecrypt ==
    \/ \E c \in Calls, d \in ServiceCreates, ip \in Origins :
           BeginCreate(c, "u1", d, ip)
    \/ \E c \in Calls, u \in Users, id \in SecretIds, ip \in Origins :
           BeginDecrypt(c, u, id, TRUE, ip)
    \/ \E c \in Calls :
           \/ CreateValidate(c)
           \/ CreateCommitSecret(c)
           \/ CreateRefresh(c)
           \/ CreateCommitAudit(c)
           \/ CreateReturn(c)
           \/ DecryptGet(c)
           \/ Commit(c)
           \/ Cancel(c)
           \/ Return(c)

SpecAsyncDecrypt == InitService /\ [][NextAsyncDecrypt]_vars

\* u1 creates, updates and deletes; creates are whole calls here, updates and
\* deletes run concurrently and can be cancelled at every await
NextAsyncDelete ==
    \/ \E d \in ServiceCreates, ip \in Origins : create_secret("u1", d, ip)
    \/ \E c \in Calls, id \in SecretIds, d \in AsyncPatches, ip \in Origins :
           BeginUpdate(c, "u1", id, d, ip)
    \/ \E c \in Calls, id \in SecretIds, ip \in Origins :
           BeginDelete(c, "u1", id, ip)
    \/ \E c \in Calls :
           \/ MutateGet(c)
           \/ DeleteMark(c)
           \/ Commit(c)
           \/ Cancel(c)
           \/ Return(c)

SpecAsyncDelete == Init /\ [][NextAsyncDelete]_vars

\* the credential lists of the imports: one name, or two names in order
ImportLists ==
    {<<Cred("A", TRUE, v)>> : v \in Values}
    \cup {<<Cred("A", TRUE, v), Cred("B", TRUE, v)>> : v \in Values}

\* u1 creates and imports; both can be cancelled at every await
NextAsyncImport ==
    \/ \E c \in Calls, d \in ServiceCreates, ip \in Origins :
           BeginCreate(c, "u1", d, ip)
    \/ \E c \in Calls, l \in ImportLists, ip \in Origins :
           BeginImport(c, "u1", "default", l, ip)
    \/ \E c \in Calls :
           \/ ImportFind(c)
           \/ CreateValidate(c)
           \/ CreateCommitSecret(c)
           \/ CreateRefresh(c)
           \/ CreateCommitAudit(c)
           \/ CreateReturn(c)
           \/ ImportCommit(c)
           \/ Cancel(c)
           \/ Return(c)

SpecAsyncImport == Init /\ [][NextAsyncImport]_vars

(***************************************************************************)
(* The rate limiter called on its own, over a clock that runs past the     *)
(* longest retry_after                                                     *)
(***************************************************************************)
LimiterHorizon == (WindowSeconds + 1) * TicksPerSecond + 1

\* one caller asks the limiter for one principal; its record keeps what it saw:
\* the times at which it was admitted, of its last call the time, the count
\* left after pruning and the outcome, and the time and outcome of the call
\* before that
CallLimiter(c, user_id) ==
    LET res == _check_rate_limit(decrypt_requests[user_id], now, rate_limit_max,
                                 rate_limit_window)
        before == IF calls[c].pc = "idle" THEN <<>> ELSE calls[c].admitted
        last == IF calls[c].pc = "idle"
                THEN [at |-> 0, error |-> None, retry_after |-> 0]
                ELSE [at |-> calls[c].at, error |-> calls[c].error,
                      retry_after |-> calls[c].retry_after]
    IN  /\ calls[c].pc = "idle" \/ (calls[c].pc = "asked" /\ calls[c].user_id = user_id)
        /\ decrypt_requests' = [decrypt_requests EXCEPT ![user_id] = res.requests]
        /\ calls' = [calls EXCEPT ![c] =
               [pc |-> "asked", op |-> "check", user_id |-> user_id,
                admitted |-> IF res.error = None THEN Append(before, now) ELSE before,
                at |-> now,
                count |-> Len(SelectSeq(decrypt_requests[user_id],
                                        LAMBDA ts : ts > now - rate_limit_window)),
                error |-> res.error, retry_after |-> res.retry_after,
                last |-> last]]
        /\ UNCHANGED <<secrets, audit, rate_limit_max, encryption_key, now, next_id>>

LimiterTick ==
    /\ now < LimiterHorizon
    /\ now' = now + 1
    /\ UNCHANGED <<secrets, audit, decrypt_requests, rate_limit_max,
                   encryption_key, next_id, calls>>

NextLimiter ==
    \/ \E user_id \in Users : CallLimiter("c1", user_id)
    \/ LimiterTick

SpecLimiter == InitService /\ [][NextLimiter]_vars

\* reads next to the calls that fill the tables and the limiter
NextReads ==
    \/ \E u \in Users, d \in SecretCreate, ip \in Origins : create_secret(u, d, ip)
    \/ \E u \in Users, id \in SecretIds, ip \in Origins :
           decrypt_secret(u, id, TRUE, ip)
    \/ \E u \in Users, id \in SecretIds : get_secret(u, id)
    \/ \E u \in Users, c \in Categories \cup {None}, p \in Profiles \cup {None} :
           list_secrets(u, c, p)

SpecReads == Init /\ [][NextReads]_vars

(***************************************************************************)
(* The decrypt endpoint: POST /secrets/{secret_id}/decrypt                 *)
(***************************************************************************)
\* default of SecretsService.__init__(rate_limit_max); the default window of 60
\* seconds is read on the model's clock as rate_limit_window
DEFAULT_RATE_LIMIT_MAX == 10

EndpointAudit == DEFAULT_RATE_LIMIT_MAX + 2

\* get_secrets_service_instance: a SecretsService built for the request, with the
\* default limit and no request recorded
get_secrets_service_instance ==
    [rate_limit_max |-> DEFAULT_RATE_LIMIT_MAX,
     _decrypt_requests |-> [u \in Users |-> <<>>],
     encryption_key |-> encryption_key]

\* the status of the response for the outcome of SecretsService.decrypt_secret
ResponseStatus(error) ==
    CASE error = None -> 200
      [] error = "SecretNotFoundError" -> 404
      [] error = "RateLimitExceededError" -> 429
      [] OTHER -> 500

\* the endpoint, called by one client; the record keeps the times at which the
\* client's earlier requests passed the limiter, and the response. The service
\* built for the request, with the timestamp it recorded, is dropped on return
api_decrypt_secret(c, current_user, is_superuser, secret_id, ip_address) ==
    LET secrets_service == get_secrets_service_instance
        res == DecryptCallResult(secrets, audit,
                                 secrets_service._decrypt_requests[current_user],
                                 current_user, secret_id, TRUE, ip_address,
                                 secrets_service.encryption_key, now,
                                 secrets_service.rate_limit_max)
        before == IF calls[c].pc = "idle" THEN <<>> ELSE calls[c].admitted
        passed == res.error \notin {"RateLimitExceededError", "ValueError"}
    IN  /\ calls[c].pc = "idle"
           \/ (calls[c].pc = "responded" /\ calls[c].user_id = current_user)
        /\ Len(before) <= DEFAULT_RATE_LIMIT_MAX
        /\ IF ~is_superuser
           THEN /\ calls' = [calls EXCEPT ![c] =
                       [pc |-> "responded", op |-> "api_decrypt",
                        user_id |-> current_user, is_superuser |-> FALSE,
                        at |-> now, before |-> before, admitted |-> before,
                        status |-> 403, retry_after |-> None]]
                /\ UNCHANGED audit
           ELSE /\ Len(res.log) <= EndpointAudit
                /\ audit' = res.log
                /\ calls' = [calls EXCEPT ![c] =
                       [pc |-> "responded", op |-> "api_decrypt",
                        user_id |-> current_user, is_superuser |-> TRUE,
                        at |-> now, before |-> before,
                        admitted |-> IF passed THEN Append(before, now) ELSE before,
                        status |-> ResponseStatus(res.error),
                        retry_after |-> IF res.error = "RateLimitExceededError"
                                        THEN res.retry_after ELSE None]]
        /\ UNCHANGED <<secrets, decrypt_requests, rate_limit_max, encryption_key,
                       now, next_id>>

NextEndpoint ==
    \/ \E d \in ServiceCreates, ip \in Origins : create_secret("u1", d, ip)
    \/ \E u \in Users, a \in BOOLEAN, ip \in Origins :
           api_decrypt_secret("c1", u, a, 1, ip)
    \/ Tick

SpecEndpoint == Init /\ [][NextEndpoint]_vars

(***************************************************************************)
(* Updates on a store of up to three secrets of one principal              *)
(***************************************************************************)
UpdateSecrets == MaxSecrets + 1
UpdateAudit == MaxAudit + 1
UpdateIds == 1..UpdateSecrets

UpdateCreates == {d \in SecretCreate : d.category = "Custom"}

\* SecretUpdate inputs with every field present or absent
UpdatePatches ==
    [name : {None, "B"}, key : {None, "K"}, value : {None, "v2"},
     category : {None, "AWS"}, profile : Profiles \cup {None}]

\* the patches the calls of SpecUpdates are made with
AppliedPatches ==
    {d \in UpdatePatches :
        \/ d.name = None /\ d.key = None /\ d.value = None /\ d.category = None
        \/ d.name = None /\ d.key = "K" /\ d.value = "v2" /\ d.category = "AWS"
                         /\ d.profile = None}

CreateForUpdates(data, ip_address) ==
    LET res == CreateSecretResult(secrets, audit, next_id, "u1", data,
                                  ip_address, encryption_key, now)
    IN  /\ res.nid <= UpdateSecrets
        /\ Len(res.log) <= UpdateAudit
        /\ secrets' = res.rows
        /\ audit' = res.log
        /\ next_id' = res.nid
        /\ UNCHANGED <<decrypt_requests, rate_limit_max, encryption_key, now, calls>>

UpdateForUpdates(user_id, secret_id, data, ip_address) ==
    LET res == UpdateSecretResult(secrets, audit, user_id, secret_id, data,
                                  ip_address, encryption_key)
    IN  /\ Len(res.log) <= UpdateAudit
        /\ secrets' = res.rows
        /\ audit' = res.log
        /\ UNCHANGED <<decrypt_requests, rate_limit_max, encryption_key, now,
                       next_id, calls>>

NextUpdates ==
    \/ \E d \in UpdateCreates, ip \in Origins : CreateForUpdates(d, ip)
    \/ \E u \in Users, id \in UpdateIds, d \in AppliedPatches, ip \in Origins :
           UpdateForUpdates(u, id, d, ip)

SpecUpdates == Init /\ [][NextUpdates]_vars

(***************************************************************************)
(* Masked reads of secrets whose texts overlap                             *)
(***************************************************************************)
\* names, keys and values are free text: SecretBase and SecretCreate put no
\* constraint on them
MaskNames == {"A", "gAAAAA#"}

MaskKeys == {"A_KEY"}

MaskValues == {"", "*", "********", "A", "v1", "o", "1", "KEY"}

MaskCreates ==
    {[name |-> n, key |-> k, value |-> v, category |-> c, profile |-> p] :
        n \in MaskNames, k \in MaskKeys, v \in MaskValues,
        c \in Categories, p \in Profiles}

NextMask ==
    \/ \E d \in MaskCreates, ip \in Origins : create_secret("u1", d, ip)
    \/ \E u \in Users, id \in SecretIds : get_secret(u, id)
    \/ \E u \in Users, c \in Categories \cup {None}, p \in Profiles \cup {None} :
           list_secrets(u, c, p)

SpecMask == Init /\ [][NextMask]_vars

(***************************************************************************)
(* One principal storing different values                                  *)
(***************************************************************************)
Plaintexts == {"v1", "v2"}

ValueCreates ==
    {[name |-> n, key |-> n, value |-> v, category |-> c, profile |-> p] :
        n \in Names, v \in Plaintexts, c \in Categories, p \in Profiles}

\* patches with and without a value, also renaming or moving the secret
ValuePatches ==
    {[name |-> n, key |-> None, value |-> v, category |-> None, profile |-> p] :
        n \in {None, "B"}, v \in Plaintexts \cup {None}, p \in {None, "production"}}

\* documents with rows for (A, default) and (B, production) and a failing row
ValueDocs ==
    {YamlDoc(TRUE, TRUE, <<Section("default", TRUE, <<Cred("A", TRUE, v),
                                                       Cred("B", FALSE, "5")>>),
                           Section("production", TRUE, <<Cred("B", TRUE, w)>>)>>) :
        v \in Plaintexts, w \in Plaintexts}

NextValues ==
    \/ \E d \in ValueCreates, ip \in Origins : create_secret("u1", d, ip)
    \/ \E id \in SecretIds, d \in ValuePatches, ip \in Origins :
           update_secret("u1", id, d, ip)
    \/ \E id \in SecretIds, ip \in Origins : delete_secret("u1", id, ip)
    \/ \E id \in SecretIds, ip \in Origins : decrypt_secret("u1", id, TRUE, ip)
    \/ \E doc \in ValueDocs, ip \in Origins : import_yaml("u1", doc, ip)

SpecValues == Init /\ [][NextValues]_vars

(***************************************************************************)
(* Credential loaders and the resolver                                     *)
(***************************************************************************)
\* the priority order of the loaders
LoaderPriority ==
    <<"DatabaseLoader", "EnvironmentLoader", "ConfigFileLoader", "AWSSecretLoader">>

LoaderKinds == {LoaderPriority[i] : i \in 1..Len(LoaderPriority)}

CredentialKeys == {"API_KEY", "DB_URL"}

\* the value a source holds for a key; different sources hold different values
SourceValue(kind, key) == kind \o ":" \o key

\* a loader over a source that holds the given keys
Loader(kind, keys) ==
    [kind |-> kind, credentials |-> [k \in keys |-> SourceValue(kind, k)]]

\* BaseCredentialLoader.contains (contains_async for the DatabaseLoader)
contains(loader, key) == key \in DOMAIN loader.credentials

\* BaseCredentialLoader.get (get_async for the DatabaseLoader)
get(loader, key) ==
    IF key \in DOMAIN loader.credentials THEN loader.credentials[key] ELSE None

\* which loaders a caller composes and which keys their sources hold
Compositions == UNION {[S -> SUBSET CredentialKeys] : S \in SUBSET LoaderKinds}

\* the list a caller builds from its loaders, highest priority first
LoaderList(held) ==
    LET kinds == SelectSeq(LoaderPriority, LAMBDA k : k \in DOMAIN held)
    IN  [i \in 1..Len(kinds) |-> Loader(kinds[i], held[kinds[i]])]

\* fault model: the resolver returns the last match of the list
ResolveCredential_last_match(loaders, key) ==
    LET holders == {i \in 1..Len(loaders) : contains(loaders[i], key)}
    IN  IF holders = {} THEN None
        ELSE get(loaders[CHOOSE i \in holders : \A j \in holders : i >= j], key)

\* the credential resolver: the value from the first loader of the list for
\* which contains(key) is true, absent (None) if no loader contains the key
ResolveCredential(loaders, key) ==
    LET holders == {i \in 1..Len(loaders) : contains(loaders[i], key)}
    IN  IF holders = {} THEN None
        ELSE get(loaders[CHOOSE i \in holders : \A j \in holders : i <= j], key)

BeginResolve(c, held, key) ==
    /\ calls[c].pc = "idle"
    /\ calls' = [calls EXCEPT ![c] =
           [pc |-> "resolve", op |-> "resolve", key |-> key,
            loaders |-> LoaderList(held), result |-> None]]
    /\ UNCHANGED <<secrets, audit, decrypt_requests, rate_limit_max, encryption_key,
                   now, next_id>>

Resolve(c) ==
    /\ calls[c].pc = "resolve"
    /\ calls' = [calls EXCEPT ![c] =
           [@ EXCEPT !.pc = "done",
                     !.result = ResolveCredential(calls[c].loaders, calls[c].key)]]
    /\ UNCHANGED <<secrets, audit, decrypt_requests, rate_limit_max, encryption_key,
                   now, next_id>>

NextLoaders ==
    \/ \E held \in Compositions, key \in CredentialKeys : BeginResolve("c1", held, key)
    \/ Resolve("c1")
    \/ Return("c1")

SpecLoaders == Init /\ [][NextLoaders]_vars

(***************************************************************************)
(* ConfigFileLoader                                                        *)
(***************************************************************************)
Digit(n) == SubSeq("0123456789", n + 1, n + 1)

RECURSIVE DecimalText(_)
DecimalText(n) ==
    IF n < 10 THEN Digit(n) ELSE DecimalText(n \div 10) \o Digit(n % 10)

\* the values yaml.safe_load gives
YNull == [t |-> "null"]
YStr(text) == [t |-> "str", v |-> text]
YInt(n) == [t |-> "int", v |-> n]
YSeq == [t |-> "seq"]
YMap(m) == [t |-> "map", m |-> m]

\* str(value) of a value that is not a string
PyStr(value) ==
    CASE value.t = "int" -> DecimalText(value.v)
      [] value.t = "seq" -> "[]"
      [] value.t = "map" -> "{...}"
      [] OTHER -> value.v

EmptyConfig == [k \in {} |-> YNull]

\* fault model: a document without the requested profile is served whole
_load_from_file_whole_document(file, profile) ==
    IF ~file.exists
    THEN [error |-> "FileNotFoundError", message |-> "Configuration file not found",
          config |-> EmptyConfig]
    ELSE IF ~file.parses
    THEN [error |-> "YAMLError", message |-> "yaml", config |-> EmptyConfig]
    ELSE IF file.root.t = "null"
    THEN [error |-> None, message |-> None, config |-> EmptyConfig]
    ELSE IF file.root.t # "map"
    THEN [error |-> "ValueError", message |-> "Invalid YAML structure",
          config |-> EmptyConfig]
    ELSE IF profile \notin DOMAIN file.root.m
    THEN [error |-> None, message |-> None, config |-> file.root.m]
    ELSE IF file.root.m[profile].t = "null"
    THEN [error |-> None, message |-> None, config |-> EmptyConfig]
    ELSE IF file.root.m[profile].t = "map"
    THEN [error |-> None, message |-> None, config |-> file.root.m[profile].m]
    ELSE [error |-> "ValueError", message |-> "Invalid profile configuration",
          config |-> EmptyConfig]

\* ConfigFileLoader._load_from_file for a path that is given
_load_from_file(file, profile) ==
    IF ~file.exists
    THEN [error |-> "FileNotFoundError", message |-> "Configuration file not found",
          config |-> EmptyConfig]
    ELSE IF ~file.parses
    THEN [error |-> "YAMLError", message |-> "yaml", config |-> EmptyConfig]
    ELSE IF file.root.t = "null"
    THEN [error |-> None, message |-> None, config |-> EmptyConfig]
    ELSE IF file.root.t # "map"
    THEN [error |-> "ValueError", message |-> "Invalid YAML structure",
          config |-> EmptyConfig]
    ELSE LET full_config == file.root.m
         IN  IF profile \in DOMAIN full_config
             THEN LET profile_config == full_config[profile]
                  IN  IF profile_config.t = "null"
                      THEN [error |-> None, message |-> None, config |-> EmptyConfig]
                      ELSE IF profile_config.t = "map"
                      THEN [error |-> None, message |-> None,
                            config |-> profile_config.m]
                      ELSE [error |-> "ValueError",
                            message |-> "Invalid profile configuration",
                            config |-> EmptyConfig]
             ELSE IF \E key \in DOMAIN full_config : key \in SecretProfile
                  THEN [error |-> "KeyError", message |-> "Profile not found",
                        config |-> EmptyConfig]
                  ELSE [error |-> None, message |-> None, config |-> full_config]

\* no filepath argument, no config argument
NoFile == [given |-> FALSE]
NoConfig == [given |-> FALSE]

\* ConfigFileLoader.__init__
NewConfigFileLoader(filepath, profile, config) ==
    IF config.given
    THEN [error |-> None, message |-> None, config |-> config.m]
    ELSE IF filepath.given THEN _load_from_file(filepath, profile)
    ELSE [error |-> None, message |-> None, config |-> EmptyConfig]

\* ConfigFileLoader.contains
ConfigFileContains(loader, key) == key \in DOMAIN loader.config

\* ConfigFileLoader.get
ConfigFileGet(loader, key) ==
    IF key \notin DOMAIN loader.config THEN None
    ELSE LET value == loader.config[key]
         IN  IF value.t = "null" THEN None
             ELSE IF value.t # "str" THEN PyStr(value)
             ELSE value.v

\* YAML documents: credentials of a section, top-level keys, roots
YamlLeaves == {YNull, YStr("secret123"), YInt(5432)}
YamlSections == {YMap(m) : m \in UNION {[K -> YamlLeaves] : K \in SUBSET {"KEY"}}}
YamlTopKeys == {"default", "staging", "KEY"}
YamlMappings ==
    UNION {[K -> YamlLeaves \cup YamlSections] : K \in SUBSET YamlTopKeys}
YamlRoots == {YNull, YStr("text"), YSeq} \cup {YMap(m) : m \in YamlMappings}

YamlFiles ==
    {[given |-> TRUE, exists |-> FALSE], [given |-> TRUE, exists |-> TRUE, parses |-> FALSE]}
    \cup {[given |-> TRUE, exists |-> TRUE, parses |-> TRUE, root |-> r] : r \in YamlRoots}

LoaderProfiles == {"default", "production"}
LoaderKeys == {"KEY", "default", "staging", "API_KEY"}

\* a caller constructs a ConfigFileLoader; its record keeps the arguments and the
\* loader, or the error raised
ConstructConfigFileLoader(c, filepath, profile, config) ==
    LET made == NewConfigFileLoader(filepath, profile, config)
    IN  /\ calls[c].pc = "idle"
        /\ calls' = [calls EXCEPT ![c] =
               [pc |-> "done", op |-> "ConfigFileLoader", filepath |-> filepath,
                profile |-> profile, given |-> config, error |-> made.error,
                message |-> made.message, config |-> made.config]]
        /\ UNCHANGED <<secrets, audit, decrypt_requests, rate_limit_max,
                       encryption_key, now, next_id>>

NextFileLoader ==
    \/ \E f \in YamlFiles, p \in LoaderProfiles :
           ConstructConfigFileLoader("c1", f, p, NoConfig)
    \/ \E m \in YamlMappings, p \in LoaderProfiles :
           ConstructConfigFileLoader("c1", NoFile, p, [given |-> TRUE, m |-> m])
    \/ Return("c1")

SpecFileLoader == Init /\ [][NextFileLoader]_vars

(***************************************************************************)
(* AWSSecretLoader                                                         *)
(***************************************************************************)
\* what the remote store answers to get_secret_value and to describe_secret
GetSecretValueResponses ==
    {[kind |-> "SecretString", v |-> "s1"], [kind |-> "SecretString", v |-> "s2"],
     [kind |-> "SecretBinary", decodes |-> TRUE, v |-> "b1"],
     [kind |-> "SecretBinary", decodes |-> FALSE],
     [kind |-> "NoValue"],
     [kind |-> "ResourceNotFoundException"],
     [kind |-> "Exception"]}

DescribeSecretResponses == {"described", "ResourceNotFoundException", "Exception"}

VersionIds == {None, "", "v1"}
VersionStageLabels == {None, "AWSPREVIOUS"}

\* the value get reads from a response, None for a failed or absent read
ResponseValue(response) ==
    IF response.kind = "SecretString" THEN response.v
    ELSE IF response.kind = "SecretBinary" /\ response.decodes THEN response.v
    ELSE None

\* no call of the remote store
NoRequest == [SecretId |-> None, VersionId |-> None, VersionStage |-> None]

\* the request get sends: falsy version arguments are left out
GetSecretValueRequest(key, version_id, version_stage_label) ==
    [SecretId |-> key,
     VersionId |-> IF version_id \notin {None, ""} THEN version_id ELSE None,
     VersionStage |-> IF version_stage_label \notin {None, ""}
                      THEN version_stage_label ELSE None]

\* cache[key] = value
CachePut(cache, key, value) ==
    [k \in DOMAIN cache \cup {key} |-> IF k = key THEN value ELSE cache[k]]

\* fault model: the value of any version is cached
AwsGet_cache_every_version(cache, key, version_id, version_stage_label, response) ==
    IF version_id = None /\ version_stage_label = None /\ key \in DOMAIN cache
    THEN [ret |-> cache[key], cache |-> cache, request |-> NoRequest]
    ELSE [ret |-> ResponseValue(response),
          cache |-> IF ResponseValue(response) # None
                    THEN CachePut(cache, key, ResponseValue(response)) ELSE cache,
          request |-> GetSecretValueRequest(key, version_id, version_stage_label)]

\* AWSSecretLoader.get
AwsGet(cache, key, version_id, version_stage_label, response) ==
    IF version_id = None /\ version_stage_label = None /\ key \in DOMAIN cache
    THEN [ret |-> cache[key], cache |-> cache, request |-> NoRequest]
    ELSE [ret |-> ResponseValue(response),
          cache |-> IF /\ ResponseValue(response) # None
                       /\ version_id = None /\ version_stage_label = None
                    THEN CachePut(cache, key, ResponseValue(response)) ELSE cache,
          request |-> GetSecretValueRequest(key, version_id, version_stage_label)]

\* AWSSecretLoader.contains
AwsContains(cache, key, response) ==
    IF key \in DOMAIN cache THEN [ret |-> TRUE, request |-> NoRequest]
    ELSE [ret |-> response = "described", request |-> [SecretId |-> key]]

\* AWSSecretLoader.__init__; the record of the loader keeps its cache, the
\* successful remote reads of the default version made so far, and the last call
NewAWSSecretLoader(c) ==
    /\ calls[c].pc = "idle"
    /\ calls' = [calls EXCEPT ![c] =
           [pc |-> "loader", op |-> "AWSSecretLoader", _cache |-> <<>>,
            reads |-> {}, last |-> [op |-> "__init__"]]]
    /\ UNCHANGED <<secrets, audit, decrypt_requests, rate_limit_max, encryption_key,
                   now, next_id>>

CallAwsGet(c, key, version_id, version_stage_label, response) ==
    LET res == AwsGet(calls[c]._cache, key, version_id, version_stage_label, response)
        read == /\ res.request # NoRequest
                /\ res.request.VersionId = None /\ res.request.VersionStage = None
                /\ ResponseValue(response) # None
    IN  /\ calls[c].pc = "loader" /\ calls[c].op = "AWSSecretLoader"
        /\ calls' = [calls EXCEPT ![c] =
               [@ EXCEPT !._cache = res.cache,
                         !.reads = IF read
                                   THEN @ \cup {<<key, ResponseValue(response)>>}
                                   ELSE @,
                         !.last = [op |-> "get", key |-> key,
                                   version_id |-> version_id,
                                   version_stage_label |-> version_stage_label,
                                   response |-> response, request |-> res.request,
                                   ret |-> res.ret, cache |-> calls[c]._cache]]]
        /\ UNCHANGED <<secrets, audit, decrypt_requests, rate_limit_max,
                       encryption_key, now, next_id>>

CallAwsContains(c, key, response) ==
    LET res == AwsContains(calls[c]._cache, key, response)
    IN  /\ calls[c].pc = "loader" /\ calls[c].op = "AWSSecretLoader"
        /\ calls' = [calls EXCEPT ![c] =
               [@ EXCEPT !.last = [op |-> "contains", key |-> key,
                                   response |-> response, request |-> res.request,
                                   ret |-> res.ret, cache |-> calls[c]._cache]]]
        /\ UNCHANGED <<secrets, audit, decrypt_requests, rate_limit_max,
                       encryption_key, now, next_id>>

\* AWSSecretLoader.clear_cache
clear_cache(c) ==
    /\ calls[c].pc = "loader" /\ calls[c].op = "AWSSecretLoader"
    /\ calls' = [calls EXCEPT ![c] =
           [@ EXCEPT !._cache = <<>>,
                     !.last = [op |-> "clear_cache", cache |-> calls[c]._cache]]]
    /\ UNCHANGED <<secrets, audit, decrypt_requests, rate_limit_max, encryption_key,
                   now, next_id>>

NextAws ==
    \/ NewAWSSecretLoader("c1")
    \/ \E key \in CredentialKeys, v \in VersionIds, l \in VersionStageLabels,
          r \in GetSecretValueResponses : CallAwsGet("c1", key, v, l, r)
    \/ \E key \in CredentialKeys, r \in DescribeSecretResponses :
           CallAwsContains("c1", key, r)
    \/ clear_cache("c1")

SpecAws == Init /\ [][NextAws]_vars

(***************************************************************************)
(* DatabaseLoader                                                          *)
(***************************************************************************)
\* DatabaseLoader.contains_async
contains_async(rows, user_id, profile, key) ==
    LET res == ScalarOneOrNone({r \in rows : /\ r.key = key
                                             /\ r.user_id = user_id
                                             /\ r.profile = profile})
    IN  [error |-> res.error, ret |-> res.error = None /\ res.found]

\* DatabaseLoader.get_async; encryption_service is the key of the loader's
\* EncryptionService, None for a loader made without one
get_async(rows, user_id, profile, encryption_service, key) ==
    LET res == ScalarOneOrNone({r \in rows : /\ r.key = key
                                             /\ r.user_id = user_id
                                             /\ r.profile = profile})
    IN  IF res.error # None THEN [error |-> res.error, ret |-> None]
        ELSE IF ~res.found THEN [error |-> None, ret |-> None]
        ELSE IF encryption_service = None THEN [error |-> None, ret |-> None]
        ELSE IF ~DecryptOk(encryption_service, TheRow(res).encrypted_value)
        THEN [error |-> "DecryptionError", ret |-> None]
        ELSE [error |-> None,
              ret |-> Decrypt(encryption_service, TheRow(res).encrypted_value)]

\* secrets that are credentials of one kind under different names
KeyedCreates ==
    {[name |-> n, key |-> "API_KEY", value |-> v, category |-> "Custom",
      profile |-> p] : n \in Names, v \in Values, p \in Profiles}

StoreKeys == {"API_KEY", "A", "B"}

NextStoreLoader ==
    \/ \E u \in Users, d \in KeyedCreates, ip \in Origins : create_secret(u, d, ip)
    \/ \E u \in Users, id \in SecretIds, d \in CallPatches, ip \in Origins :
           update_secret(u, id, d, ip)
    \/ \E u \in Users, doc \in Docs, ip \in Origins : import_yaml(u, doc, ip)

SpecStoreLoader == Init /\ [][NextStoreLoader]_vars

(***************************************************************************)
(* EnvironmentLoader, and the four variants side by side                   *)
(***************************************************************************)
\* os.environ: the variables that are set, an empty one among them
Environments ==
    UNION {[K -> {"", "postgres://db"}] : K \in SUBSET CredentialKeys}

\* EnvironmentLoader.contains
EnvContains(environ, key) == key \in DOMAIN environ

\* EnvironmentLoader.get: os.getenv(key)
EnvGet(environ, key) == IF key \in DOMAIN environ THEN environ[key] ELSE None

\* an EnvironmentLoader in a process with the given environment
NewEnvironmentLoader(c, environ) ==
    /\ calls[c].pc = "idle"
    /\ calls' = [calls EXCEPT ![c] =
           [pc |-> "done", op |-> "EnvironmentLoader", environ |-> environ]]
    /\ UNCHANGED <<secrets, audit, decrypt_requests, rate_limit_max, encryption_key,
                   now, next_id>>

\* the caller lets go of its AWSSecretLoader
DropLoader(c) ==
    /\ calls[c].pc = "loader"
    /\ calls' = [calls EXCEPT ![c] = IdleCall]
    /\ UNCHANGED <<secrets, audit, decrypt_requests, rate_limit_max, encryption_key,
                   now, next_id>>

\* a secret of the remote store as describe_secret and get_secret_value see it:
\* missing, holding a string, holding bytes that are not UTF-8, and described
\* while its value cannot be read
RemoteSecrets ==
    {[describe |-> "ResourceNotFoundException",
      value |-> [kind |-> "ResourceNotFoundException"]],
     [describe |-> "described", value |-> [kind |-> "SecretString", v |-> "s1"]],
     [describe |-> "described", value |-> [kind |-> "SecretBinary", decodes |-> FALSE]],
     [describe |-> "described", value |-> [kind |-> "Exception"]]}

\* a DatabaseLoader made with the service's EncryptionService, or with none
LoaderEncryptionServices == {encryption_key, None}

NextVariants ==
    \/ \E d \in ServiceCreates, ip \in Origins : create_secret("u1", d, ip)
    \/ \E f \in YamlFiles, p \in LoaderProfiles :
           ConstructConfigFileLoader("c1", f, p, NoConfig)
    \/ \E m \in YamlMappings, p \in LoaderProfiles :
           ConstructConfigFileLoader("c1", NoFile, p, [given |-> TRUE, m |-> m])
    \/ \E environ \in Environments : NewEnvironmentLoader("c1", environ)
    \/ NewAWSSecretLoader("c1")
    \/ \E r \in RemoteSecrets : CallAwsGet("c1", "API_KEY", None, None, r.value)
    \/ \E r \in RemoteSecrets : CallAwsContains("c1", "API_KEY", r.describe)
    \/ DropLoader("c1")
    \/ Return("c1")

SpecVariants == Init /\ [][NextVariants]_vars

(***************************************************************************)
(* list_secrets with a search text                                         *)
(***************************************************************************)
\* one character in lower case
LowerChar(ch) ==
    CASE ch = "A" -> "a" [] ch = "B" -> "b" [] ch = "C" -> "c" [] ch = "K" -> "k"
      [] OTHER -> ch

\* str.lower()
RECURSIVE Lower(_)
Lower(text) ==
    IF Len(text) = 0 THEN text
    ELSE LowerChar(SubSeq(text, 1, 1)) \o Lower(SubSeq(text, 2, Len(text)))

\* column.ilike(pattern): "%" stands for any run of characters, "_" for any one
\* character, any other character for itself in either case
RECURSIVE ILike(_, _)
ILike(text, pattern) ==
    IF Len(pattern) = 0 THEN Len(text) = 0
    ELSE LET p == SubSeq(pattern, 1, 1)
             rest == SubSeq(pattern, 2, Len(pattern))
         IN  IF p = "%"
             THEN \/ ILike(text, rest)
                  \/ Len(text) > 0 /\ ILike(SubSeq(text, 2, Len(text)), pattern)
             ELSE /\ Len(text) > 0
                  /\ (p = "_" \/ LowerChar(SubSeq(text, 1, 1)) = LowerChar(p))
                  /\ ILike(SubSeq(text, 2, Len(text)), rest)

\* the rows the statement of list_secrets selects
ListSecretsRows(rows, user_id, category, profile, search) ==
    {x \in rows :
        /\ x.user_id = user_id
        /\ (category # None => x.category = category)
        /\ (profile # None => x.profile = profile)
        /\ (search # None =>
               LET search_pattern == "%" \o Lower(search) \o "%"
               IN  ILike(x.name, search_pattern) \/ ILike(x.key, search_pattern))}

\* ORDER BY created_at DESC: the orders the database may return the rows in
OrderByCreatedAtDesc(rows) ==
    {seq \in [1..Cardinality(rows) -> rows] :
        /\ \A i, j \in 1..Cardinality(rows) : i # j => seq[i] # seq[j]
        /\ \A i, j \in 1..Cardinality(rows) :
              i < j => seq[i].created_at >= seq[j].created_at}

\* SecretsService.list_secrets: the lists a call may return
ListSecretsSearchResult(rows, user_id, category, profile, search) ==
    {[i \in 1..Len(seq) |-> _to_secret_read(seq[i])] :
        seq \in OrderByCreatedAtDesc(
                    ListSecretsRows(rows, user_id, category, profile, search))}

SearchNames == {"abc", "a_c"}
SearchTexts == {"a_c", "_", "%", "B", "k", "x", ""}

SearchCreates ==
    {[name |-> n, key |-> "K1", value |-> v, category |-> "Custom", profile |-> p] :
        n \in SearchNames, v \in Values, p \in Profiles}

list_secrets_search(user_id, category, profile, search) ==
    /\ ListSecretsSearchResult(secrets, user_id, category, profile, search) # {}
    /\ UNCHANGED vars

NextSearch ==
    \/ \E u \in Users, d \in SearchCreates, ip \in Origins : create_secret(u, d, ip)
    \/ \E u \in Users, c \in Categories \cup {None}, p \in Profiles \cup {None},
          search \in SearchTexts \cup {None} : list_secrets_search(u, c, p, search)
    \/ Tick

SpecSearch == Init /\ [][NextSearch]_vars

(***************************************************************************)
(* EncryptionService on texts and bytes.  A text is a sequence of code     *)
(* points, a byte string a sequence of numbers in 0..255.                  *)
(***************************************************************************)
MINIMUM_KEY_LENGTH == 32

\* str.encode("utf-8") of one code point
Utf8Char(cp) ==
    IF cp < 128 THEN <<cp>>
    ELSE IF cp < 2048 THEN <<192 + (cp \div 64), 128 + (cp % 64)>>
    ELSE IF cp < 65536
    THEN <<224 + (cp \div 4096), 128 + ((cp \div 64) % 64), 128 + (cp % 64)>>
    ELSE <<240 + (cp \div 262144), 128 + ((cp \div 4096) % 64),
           128 + ((cp \div 64) % 64), 128 + (cp % 64)>>

\* str.encode("utf-8")
RECURSIVE Utf8Encode(_)
Utf8Encode(text) ==
    IF text = <<>> THEN <<>> ELSE Utf8Char(Head(text)) \o Utf8Encode(Tail(text))

\* the number of bytes of the character that starts with the byte, 0 if none does
Utf8Width(b) ==
    IF b < 128 THEN 1
    ELSE IF b >= 192 /\ b < 224 THEN 2
    ELSE IF b >= 224 /\ b < 240 THEN 3
    ELSE IF b >= 240 /\ b < 248 THEN 4
    ELSE 0

Continuation(b) == b >= 128 /\ b < 192

\* the code point of one well-formed character
Utf8CodePoint(bs) ==
    IF Len(bs) = 1 THEN bs[1]
    ELSE IF Len(bs) = 2 THEN (bs[1] - 192) * 64 + (bs[2] - 128)
    ELSE IF Len(bs) = 3
    THEN (bs[1] - 224) * 4096 + (bs[2] - 128) * 64 + (bs[3] - 128)
    ELSE (bs[1] - 240) * 262144 + (bs[2] - 128) * 4096 + (bs[3] - 128) * 64
         + (bs[4] - 128)

\* bytes.decode("utf-8"): the text, or an error for malformed bytes
RECURSIVE Utf8Decode(_)
Utf8Decode(bytes) ==
    IF bytes = <<>> THEN [error |-> None, text |-> <<>>]
    ELSE LET w == Utf8Width(Head(bytes))
             rest == IF w > 0 /\ w <= Len(bytes)
                     THEN Utf8Decode(SubSeq(bytes, w + 1, Len(bytes)))
                     ELSE [error |-> "UnicodeDecodeError", text |-> <<>>]
         IN  IF \/ w = 0
                \/ w > Len(bytes)
                \/ \E k \in 2..w : ~Continuation(bytes[k])
                \/ rest.error # None
             THEN [error |-> "UnicodeDecodeError", text |-> <<>>]
             ELSE [error |-> None,
                   text |-> <<Utf8CodePoint(SubSeq(bytes, 1, w))>> \o rest.text]

\* EncryptionService._derive_fernet_key: the first 32 bytes of the key, padded
\* with zero bytes; urlsafe_b64encode is undone by Fernet's constructor
_derive_fernet_key(key) ==
    LET key_bytes == Utf8Encode(key)
        cut == SubSeq(key_bytes, 1, IF Len(key_bytes) < 32 THEN Len(key_bytes) ELSE 32)
    IN  cut \o [i \in 1..(32 - Len(cut)) |-> 0]

\* PKCS7 padding to the AES block of 16 bytes
Pkcs7Pad(data) ==
    LET n == 16 - (Len(data) % 16)
    IN  data \o [i \in 1..n |-> n]

\* the unpadder accepts blocks that end in n bytes of value n, 1 <= n <= 16
Pkcs7Valid(padded) ==
    /\ Len(padded) > 0
    /\ Len(padded) % 16 = 0
    /\ LET n == padded[Len(padded)]
       IN  /\ n >= 1
           /\ n <= 16
           /\ \A i \in (Len(padded) - n + 1)..Len(padded) : padded[i] = n

Pkcs7Unpad(padded) == SubSeq(padded, 1, Len(padded) - padded[Len(padded)])

\* base64.urlsafe_b64encode: the canonical text of the bytes
UrlsafeB64Encode(data) == [data |-> data, extra |-> "canonical"]

\* base64.urlsafe_b64decode: characters outside the alphabet and the unused
\* bits of the last character are discarded; a text whose length does not fit
\* is rejected
UrlsafeB64Decode(text) ==
    IF text.extra = "bad_length"
    THEN [error |-> "binascii.Error", data |-> <<>>]
    ELSE [error |-> None, data |-> text.data]

\* Fernet.encrypt: version byte, time, IV, AES-128-CBC of the padded data under
\* the second half of the key, HMAC under the first half
FernetEncrypt(fernet_key, data, iv, t) ==
    LET body == [version |-> 128, timestamp |-> t, iv |-> iv,
                 ciphertext |-> [k |-> SubSeq(fernet_key, 17, 32), iv |-> iv,
                                 blocks |-> Pkcs7Pad(data)]]
    IN  UrlsafeB64Encode(
            [body |-> body, hmac |-> [k |-> SubSeq(fernet_key, 1, 16), of |-> body]])

\* what AES-CBC decryption can yield under a key other than the one that
\* encrypted: a block with invalid padding, or a validly padded block of bytes
\* that are not UTF-8, or one of bytes that are
AesOutputs ==
    { [i \in 1..16 |-> 0],
      [i \in 1..16 |-> IF i = 16 THEN 1 ELSE 255],
      [i \in 1..16 |-> IF i = 16 THEN 1 ELSE 81] }

\* Fernet.decrypt without a ttl: the token is decoded, its version byte and
\* its HMAC under the first half of the key are checked, then the ciphertext
\* is decrypted under the second half and unpadded; aes_out is what AES yields
\* when that half is not the one that encrypted
FernetDecrypt(fernet_key, token, aes_out) ==
    LET decoded == UrlsafeB64Decode(token)
        data == decoded.data
    IN  IF decoded.error # None
        THEN [error |-> "InvalidToken", data |-> <<>>]
        ELSE IF \/ data.body.version # 128
                \/ data.hmac # [k |-> SubSeq(fernet_key, 1, 16), of |-> data.body]
        THEN [error |-> "InvalidToken", data |-> <<>>]
        ELSE LET padded == IF data.body.ciphertext.k = SubSeq(fernet_key, 17, 32)
                           THEN data.body.ciphertext.blocks
                           ELSE aes_out
             IN  IF Pkcs7Valid(padded)
                 THEN [error |-> None, data |-> Pkcs7Unpad(padded)]
                 ELSE [error |-> "InvalidToken", data |-> <<>>]

\* fault model: the plaintext is encoded one byte per character
encrypt_one_byte_per_char(fernet_key, plaintext, iv, t) ==
    FernetEncrypt(fernet_key, [i \in 1..Len(plaintext) |-> plaintext[i] % 256], iv, t)

\* EncryptionService.encrypt
encrypt(fernet_key, plaintext, iv, t) ==
    FernetEncrypt(fernet_key, Utf8Encode(plaintext), iv, t)

\* EncryptionService.decrypt
decrypt(fernet_key, encrypted_value, aes_out) ==
    LET decrypted == FernetDecrypt(fernet_key, encrypted_value, aes_out)
        decoded == Utf8Decode(decrypted.data)
    IN  IF decrypted.error # None \/ decoded.error # None
        THEN [error |-> "DecryptionError", ret |-> <<>>]
        ELSE [error |-> None, ret |-> decoded.text]

\* code points: line feed, "a", e acute, the euro sign, an emoji
CodePoints == {10, 97, 233, 8364, 128512}

MaxTextLen == 2

\* the empty text, texts of one and more characters, multi-line and non-ASCII
\* ones, and texts that fill one AES block exactly and by one byte more
Texts ==
    UNION {[1..n -> CodePoints] : n \in 0..MaxTextLen}
    \cup {[i \in 1..16 |-> 97], [i \in 1..17 |-> 97]}

\* keys of the minimum length (in ASCII and ending in a two-byte character),
\* a longer key, and a key that is too short
EncryptionKeyTexts ==
    { [i \in 1..MINIMUM_KEY_LENGTH |-> 97],
      [i \in 1..MINIMUM_KEY_LENGTH |-> IF i = MINIMUM_KEY_LENGTH THEN 233 ELSE 98],
      [i \in 1..(MINIMUM_KEY_LENGTH + 8) |-> 99],
      [i \in 1..(MINIMUM_KEY_LENGTH - 1) |-> 97] }

\* the IV comes from os.urandom
IVs == {1, 2}

\* fault model: the key's length is counted in bytes of its encoding
NewEncryptionService_byte_length(c, key) ==
    /\ calls[c].pc = "idle"
    /\ calls' = [calls EXCEPT ![c] =
           IF Len(Utf8Encode(key)) < MINIMUM_KEY_LENGTH
           THEN [pc |-> "done", op |-> "round_trip", error |-> "ConfigurationError",
                 key |-> key]
           ELSE [pc |-> "ready", op |-> "round_trip", error |-> None, key |-> key,
                 fernet_key |-> _derive_fernet_key(key)]]
    /\ UNCHANGED <<secrets, audit, decrypt_requests, rate_limit_max, encryption_key,
                   now, next_id>>

\* EncryptionService.__init__
NewEncryptionService(c, key) ==
    /\ calls[c].pc = "idle"
    /\ calls' = [calls EXCEPT ![c] =
           IF Len(key) < MINIMUM_KEY_LENGTH
           THEN [pc |-> "done", op |-> "round_trip", error |-> "ConfigurationError",
                 key |-> key]
           ELSE [pc |-> "ready", op |-> "round_trip", error |-> None, key |-> key,
                 fernet_key |-> _derive_fernet_key(key)]]
    /\ UNCHANGED <<secrets, audit, decrypt_requests, rate_limit_max, encryption_key,
                   now, next_id>>

CallEncrypt(c, plaintext, iv) ==
    /\ calls[c].pc = "ready"
    /\ calls' = [calls EXCEPT ![c] =
           [pc |-> "encrypted", op |-> "round_trip", error |-> None,
            key |-> calls[c].key, fernet_key |-> calls[c].fernet_key,
            plaintext |-> plaintext,
            encrypted_value |-> encrypt(calls[c].fernet_key, plaintext, iv, now)]]
    /\ UNCHANGED <<secrets, audit, decrypt_requests, rate_limit_max, encryption_key,
                   now, next_id>>

CallDecrypt(c) ==
    \E aes_out \in AesOutputs :
       LET res == decrypt(calls[c].fernet_key, calls[c].encrypted_value, aes_out)
       IN  /\ calls[c].pc = "encrypted"
           /\ calls' = [calls EXCEPT ![c] =
                  [pc |-> "done", op |-> "round_trip", error |-> res.error,
                   key |-> calls[c].key, plaintext |-> calls[c].plaintext,
                   ret |-> res.ret]]
           /\ UNCHANGED <<secrets, audit, decrypt_requests, rate_limit_max,
                          encryption_key, now, next_id>>

NextEncryption ==
    \/ \E key \in EncryptionKeyTexts : NewEncryptionService("c1", key)
    \/ \E plaintext \in Texts, iv \in IVs : CallEncrypt("c1", plaintext, iv)
    \/ CallDecrypt("c1")
    \/ Return("c1")

SpecEncryption == Init /\ [][NextEncryption]_vars

\* key-material strings of every length from none to beyond the minimum, in
\* one-byte and in two-byte characters, together with strings that agree in the
\* first 16 or in the first 32 bytes of their encodings
EngineKeyTexts ==
    {[i \in 1..n |-> ch] : n \in 0..(MINIMUM_KEY_LENGTH + 1), ch \in {97, 233}}
    \cup { [i \in 1..MINIMUM_KEY_LENGTH |-> IF i <= 16 THEN 97 ELSE 100],
           [i \in 1..MINIMUM_KEY_LENGTH |-> IF i = MINIMUM_KEY_LENGTH THEN 233 ELSE 98],
           [i \in 1..MINIMUM_KEY_LENGTH |-> IF i = MINIMUM_KEY_LENGTH THEN 227 ELSE 98] }

\* ways in which a token text reaches decrypt changed or malformed
TamperKinds ==
    {"version", "timestamp", "iv", "ciphertext", "hmac", "bad_length",
     "ignored_characters", "not_a_token"}

\* the token text after the change
Tamper(token, how) ==
    CASE how = "version" -> [token EXCEPT !.data.body.version = 129]
      [] how = "timestamp" -> [token EXCEPT !.data.body.timestamp = @ + 1]
      [] how = "iv" -> [token EXCEPT !.data.body.iv = @ + 1]
      [] how = "ciphertext" ->
             [token EXCEPT !.data.body.ciphertext.blocks[1] = (@ + 1) % 256]
      [] how = "hmac" -> [token EXCEPT !.data.hmac.k = <<>>]
      [] how = "bad_length" -> [token EXCEPT !.extra = "bad_length"]
      [] how = "ignored_characters" -> [token EXCEPT !.extra = "ignored"]
      [] how = "not_a_token" ->
             UrlsafeB64Encode(
                 [body |-> [version |-> 104, timestamp |-> 0, iv |-> 0,
                            ciphertext |-> [k |-> <<>>, iv |-> 0, blocks |-> <<>>]],
                  hmac |-> [k |-> <<>>, of |-> <<>>]])

\* a second engine, constructed from another key, decrypts the first one's token
DecryptForeign(c, key, aes_out) ==
    LET res == decrypt(_derive_fernet_key(key), calls[c].encrypted_value, aes_out)
    IN  /\ calls[c].pc = "encrypted"
        /\ key # calls[c].key
        /\ Len(key) >= MINIMUM_KEY_LENGTH
        /\ calls' = [calls EXCEPT ![c] =
               [pc |-> "done", op |-> "foreign", error |-> res.error,
                key |-> calls[c].key, other |-> key,
                plaintext |-> calls[c].plaintext, ret |-> res.ret]]
        /\ UNCHANGED <<secrets, audit, decrypt_requests, rate_limit_max,
                       encryption_key, now, next_id>>

\* the engine decrypts its own token after the text was changed
DecryptTampered(c, how) ==
    \E aes_out \in AesOutputs :
       LET res == decrypt(calls[c].fernet_key,
                          Tamper(calls[c].encrypted_value, how), aes_out)
       IN  /\ calls[c].pc = "encrypted"
           /\ calls' = [calls EXCEPT ![c] =
                  [pc |-> "done", op |-> "tampered", error |-> res.error,
                   key |-> calls[c].key, how |-> how,
                   plaintext |-> calls[c].plaintext, ret |-> res.ret]]
           /\ UNCHANGED <<secrets, audit, decrypt_requests, rate_limit_max,
                          encryption_key, now, next_id>>

NextEngines ==
    \/ \E key \in EngineKeyTexts : NewEncryptionService("c1", key)
    \/ \E plaintext \in Texts, iv \in IVs : CallEncrypt("c1", plaintext, iv)
    \/ \E key \in EngineKeyTexts, aes_out \in AesOutputs :
           DecryptForeign("c1", key, aes_out)
    \/ \E how \in TamperKinds : DecryptTampered("c1", how)
    \/ Return("c1")

SpecEngines == Init /\ [][NextEngines]_vars

(***************************************************************************)
(* Properties                                                              *)
(***************************************************************************)
SameTriple(r, user_id, name, profile) ==
    r.user_id = user_id /\ r.name = name /\ r.profile = profile

\* the audit entry a call of user_id on secret_id from ip_address is to leave
ExpectedEntry(user_id, action_type, secret_id, ip_address) ==
    [user_id |-> user_id, action_type |-> action_type, secret_id |-> secret_id,
     ip_address |-> ip_address, timestamp |-> now]

\* the entries a call appended to the committed trail
AddedEntries(log) == SubSeq(log, Len(audit) + 1, Len(log))

Entries(log, action_type, secret_id) ==
    {i \in 1..Len(log) : log[i].action_type = action_type /\ log[i].secret_id = secret_id}

Ids(rows) == {r.id : r \in rows}

\* C1: in every state reached by create, update, delete and import_yaml calls, no
\* two stored secrets have the same owning principal, name and profile.
C1_UniqueNamePerProfile ==
    \A r1, r2 \in secrets :
        SameTriple(r1, r2.user_id, r2.name, r2.profile) => r1 = r2

\* C2: a successful create, update, delete or decrypt call appends exactly one audit
\* entry, carrying the call's principal, its action kind, the secret's id and the
\* call's origin address; a successful import_yaml appends exactly one such entry
\* (CREATE or UPDATE) for each row it created or updated, and none for other rows.
C2_EveryChangeAudited ==
    /\ \A u \in Users, d \in SecretCreate, ip \in Origins :
          LET res == CreateSecretResult(secrets, audit, next_id, u, d, ip,
                                        encryption_key, now)
          IN  res.error = None =>
                /\ Ids(res.rows) \ Ids(secrets) = {res.ret.id}
                /\ res.log = Append(audit, ExpectedEntry(u, "CREATE", res.ret.id, ip))
    /\ \A u \in Users, id \in SecretIds, d \in Patches, ip \in Origins :
          LET res == UpdateSecretResult(secrets, audit, u, id, d, ip, encryption_key)
          IN  res.error = None =>
                res.log = Append(audit, ExpectedEntry(u, "UPDATE", id, ip))
    /\ \A u \in Users, id \in SecretIds, ip \in Origins :
          LET res == DeleteSecretResult(secrets, audit, u, id, ip)
          IN  res.error = None =>
                res.log = Append(audit, ExpectedEntry(u, "DELETE", id, ip))
    /\ \A u \in Users, id \in SecretIds, ip \in Origins :
          LET res == DecryptCallResult(secrets, audit, decrypt_requests[u], u, id,
                                       TRUE, ip, encryption_key, now, rate_limit_max)
          IN  res.error = None =>
                res.log = Append(audit, ExpectedEntry(u, "DECRYPT", id, ip))
    /\ \A u \in Users, doc \in Docs, ip \in Origins :
          LET res == ImportYamlResult(secrets, audit, next_id, u, doc, ip,
                                      encryption_key, now)
              new == AddedEntries(res.log)
              created == Ids(res.rows) \ Ids(secrets)
              changed == {r.id : r \in {x \in secrets : x \notin res.rows}}
          IN  res.error = None =>
                /\ SubSeq(res.log, 1, Len(audit)) = audit
                /\ Len(new) = res.imported + res.updated
                /\ Cardinality(created) = res.imported
                /\ \A id \in created :
                       \E i \in 1..Len(new) :
                           /\ Entries(new, "CREATE", id) = {i}
                           /\ new[i] = ExpectedEntry(u, "CREATE", id, ip)
                /\ \A id \in changed :
                       \E i \in 1..Len(new) :
                           /\ Entries(new, "UPDATE", id) = {i}
                           /\ new[i] = ExpectedEntry(u, "UPDATE", id, ip)
                /\ \A i \in 1..Len(new) :
                       \/ new[i].action_type = "CREATE" /\ new[i].secret_id \in created
                       \/ /\ new[i].action_type = "UPDATE"
                          /\ \E r \in secrets : r.id = new[i].secret_id /\ r.user_id = u
                          /\ Cardinality(Entries(new, "UPDATE", new[i].secret_id)) = 1

\* calls of three kinds have succeeded, each leaving its entry in the trail
C2_Witness ==
    /\ Len(audit) = 3
    /\ \E i, j, k \in 1..Len(audit) :
          /\ audit[i].action_type = "CREATE"
          /\ audit[j].action_type = "DECRYPT"
          /\ audit[k].action_type = "DELETE"

\* C3: in every committed state the calls can leave behind, also when a call is
\* cancelled (or the process stops) at one of its awaits, a change is committed
\* exactly when its audit entry is: every committed secret row has its committed
\* CREATE entry, and every committed CREATE entry has its row (or, the row being
\* deleted, the DELETE entry); stated for the states in which no call is in flight.
C3_AuditCommittedWithChange ==
    (\A c \in Calls : calls[c].pc \in {"idle", "done"}) =>
        /\ \A r \in secrets : Entries(audit, "CREATE", r.id) # {}
        /\ \A i \in 1..Len(audit) :
              audit[i].action_type = "CREATE" =>
                  \/ audit[i].secret_id \in Ids(secrets)
                  \/ Entries(audit, "DELETE", audit[i].secret_id) # {}

InWindow(ts) == ts > now - rate_limit_window

\* decrypt calls of user_id that succeeded within the window ending now
SucceededInWindow(user_id) ==
    Len(SelectSeq(audit, LAMBDA e : /\ e.user_id = user_id
                                    /\ e.action_type = "DECRYPT"
                                    /\ InWindow(e.timestamp)))

\* requests of user_id the limiter holds within the window ending now
RecordedInWindow(user_id) == Len(SelectSeq(decrypt_requests[user_id], InWindow))

\* C4: on one service instance with max_requests = N, an elevated decrypt call of
\* a principal for an existing secret succeeds while fewer than N of the principal's
\* calls lie within the window, and once N of the principal's calls have succeeded
\* within the window the next one fails with RateLimitExceededError carrying
\* retry_after > 0.
C4_FirstNThenRejected ==
    \A r \in secrets, ip \in Origins :
        LET u == r.user_id
            res == DecryptCallResult(secrets, audit, decrypt_requests[u], u, r.id,
                                     TRUE, ip, encryption_key, now, rate_limit_max)
        IN  /\ RecordedInWindow(u) < rate_limit_max => res.error = None
            /\ SucceededInWindow(u) >= rate_limit_max =>
                   res.error = "RateLimitExceededError" /\ res.retry_after > 0

\* a decrypt call weighed by the rate limiter
Asked(call) == call.pc # "idle" /\ call.op = "decrypt" /\ call.slots # -1

Passed(call) == Asked(call) /\ call.error \notin {"RateLimitExceededError", "ValueError"}

\* C5: of two decrypt calls of one principal in flight at the same instant, of which
\* the first to reach the rate limiter found exactly one free slot, at most one
\* passes the limiter and the other fails with RateLimitExceededError, whatever the
\* interleaving.
C5_OneSlotOneWinner ==
    \A c1, c2 \in Calls :
        ( /\ c1 # c2
          /\ Asked(calls[c1]) /\ Asked(calls[c2])
          /\ calls[c1].user_id = calls[c2].user_id
          /\ calls[c1].checked_at = calls[c2].checked_at
          /\ calls[c1].slots = 1
          /\ calls[c2].slots <= 1 )
        => /\ ~(Passed(calls[c1]) /\ Passed(calls[c2]))
           /\ Passed(calls[c1]) => calls[c2].error = "RateLimitExceededError"

\* one call holds the last slot and is suspended; the other was turned away
C5_Witness ==
    \E c1, c2 \in Calls :
        /\ c1 # c2
        /\ Asked(calls[c1]) /\ Asked(calls[c2])
        /\ calls[c1].user_id = calls[c2].user_id
        /\ calls[c1].checked_at = calls[c2].checked_at
        /\ calls[c1].slots = 1
        /\ calls[c1].pc \in {"get", "commit"}
        /\ calls[c2].pc = "done"
        /\ calls[c2].error = "RateLimitExceededError"

\* C6: a decrypt call that is not elevated fails with AdminRequiredError in every
\* state - whether or not the secret exists, whoever owns it, whether or not the
\* caller's rate limit is used up - and records neither a request nor an audit entry.
C6_NonElevatedRejected ==
    \A u \in Users, id \in SecretIds, ip \in Origins :
        LET res == DecryptCallResult(secrets, audit, decrypt_requests[u], u, id,
                                     FALSE, ip, encryption_key, now, rate_limit_max)
        IN  /\ res.error = "AdminRequiredError"
            /\ res.requests = decrypt_requests[u]
            /\ res.log = audit

\* a secret exists, another id does not, its owner has used up the limit and the
\* other principal has not
C6_Witness ==
    /\ rate_limit_max >= 1
    /\ \E r \in secrets :
          /\ RecordedInWindow(r.user_id) >= rate_limit_max
          /\ SucceededInWindow(r.user_id) >= 1
          /\ \E u \in Users : u # r.user_id /\ RecordedInWindow(u) < rate_limit_max
    /\ \E id \in SecretIds : id \notin Ids(secrets)

\* C7: create fails with DuplicateSecretError exactly when the store already holds a
\* secret with the same principal, name and profile; otherwise (also when the name is
\* in use under another profile or by another principal) it succeeds.
C7_DuplicateExactlyWhenHeld ==
    \A u \in Users, d \in SecretCreate, ip \in Origins :
        LET res == CreateSecretResult(secrets, audit, next_id, u, d, ip,
                                      encryption_key, now)
            held == \E r \in secrets : SameTriple(r, u, d.name, d.profile)
        IN  /\ res.error = "DuplicateSecretError" <=> held
            /\ ~held => res.error = None

\* get, update and delete of secret r by another principal u fail with
\* SecretNotFoundError and change neither the secrets nor the trail
OthersCannotReach(r, u) ==
    /\ GetSecretResult(secrets, u, r.id).error = "SecretNotFoundError"
    /\ \A d \in Patches, ip \in Origins :
          LET res == UpdateSecretResult(secrets, audit, u, r.id, d, ip, encryption_key)
          IN  /\ res.error = "SecretNotFoundError"
              /\ res.rows = secrets
              /\ res.log = audit
    /\ \A ip \in Origins :
          LET res == DeleteSecretResult(secrets, audit, u, r.id, ip)
          IN  /\ res.error = "SecretNotFoundError"
              /\ res.rows = secrets
              /\ res.log = audit

\* list for a principal returns only secrets that principal owns
ListsOwnOnly ==
    \A u \in Users, c \in Categories \cup {None}, p \in Profiles \cup {None} :
        \A x \in ListSecretsResult(secrets, u, c, p) :
            \E r \in secrets : r.id = x.id /\ r.user_id = u

DecryptByOther(r, u, is_admin, ip) ==
    DecryptCallResult(secrets, audit, decrypt_requests[u], u, r.id, is_admin, ip,
                      encryption_key, now, rate_limit_max)

\* C8 as stated: for a secret owned by principal P, every get, update, delete and
\* decrypt call made with a different principal id fails with SecretNotFoundError
\* and leaves the secret unchanged, and list returns only the caller's own secrets.
C8_IsolationAsStated ==
    /\ \A r \in secrets : \A u \in Users \ {r.user_id} :
          /\ OthersCannotReach(r, u)
          /\ \A a \in BOOLEAN, ip \in Origins :
                /\ DecryptByOther(r, u, a, ip).error = "SecretNotFoundError"
                /\ DecryptByOther(r, u, a, ip).log = audit
    /\ ListsOwnOnly

\* C8: for a secret owned by principal P, every get, update and delete call made
\* with a different principal id fails with SecretNotFoundError, and every decrypt
\* call made with a different principal id fails too - with AdminRequiredError when
\* it is not elevated, with the rate limiter's error when the limiter turns it away,
\* with SecretNotFoundError otherwise; all of them leave the secret unchanged and
\* add no audit entry, and list returns only the caller's own secrets.
C8_PrincipalIsolation ==
    /\ \A r \in secrets : \A u \in Users \ {r.user_id} :
          /\ OthersCannotReach(r, u)
          /\ \A a \in BOOLEAN, ip \in Origins :
                LET res == DecryptByOther(r, u, a, ip)
                IN  /\ res.log = audit
                    /\ ~a => res.error = "AdminRequiredError"
                    /\ (a /\ RecordedInWindow(u) >= rate_limit_max) =>
                           res.error \in {"RateLimitExceededError", "ValueError"}
                    /\ (a /\ RecordedInWindow(u) < rate_limit_max) =>
                           res.error = "SecretNotFoundError"
    /\ ListsOwnOnly

\* both principals own a secret; one of them has asked for a decryption and used up
\* its limit, the other has not
C8_Witness ==
    /\ \E r1, r2 \in secrets : r1.user_id = "u1" /\ r2.user_id = "u2"
    /\ \E u, v \in Users :
          /\ RecordedInWindow(u) >= rate_limit_max
          /\ RecordedInWindow(v) < rate_limit_max

FailureKinds == {"DuplicateSecretError", "SecretNotFoundError", "AdminRequiredError",
                 "RateLimitExceededError", "DecryptionError"}

\* C9: a create, update, delete or decrypt call that fails with DuplicateSecretError,
\* SecretNotFoundError, AdminRequiredError, RateLimitExceededError or
\* DecryptionError adds no audit entry and leaves every stored secret unchanged
\* (decrypt is also taken on a service instance built with another key).
C9_FailuresLeaveNoTrace ==
    /\ \A u \in Users, d \in SecretCreate, ip \in Origins :
          LET res == CreateSecretResult(secrets, audit, next_id, u, d, ip,
                                        encryption_key, now)
          IN  res.error \in FailureKinds => res.rows = secrets /\ res.log = audit
    /\ \A u \in Users, id \in SecretIds, d \in Patches, ip \in Origins :
          LET res == UpdateSecretResult(secrets, audit, u, id, d, ip, encryption_key)
          IN  res.error \in FailureKinds => res.rows = secrets /\ res.log = audit
    /\ \A u \in Users, id \in SecretIds, ip \in Origins :
          LET res == DeleteSecretResult(secrets, audit, u, id, ip)
          IN  res.error \in FailureKinds => res.rows = secrets /\ res.log = audit
    /\ \A u \in Users, id \in SecretIds, a \in BOOLEAN, ip \in Origins,
          k \in EncryptionKeys :
          LET res == DecryptCallResult(secrets, audit, decrypt_requests[u], u, id, a,
                                       ip, k, now, rate_limit_max)
          IN  res.error \in FailureKinds => res.log = audit

\* a state in which calls of each failure kind can be made: a name is taken, a
\* renaming would collide, an id is unknown, a principal has used up its limit, and
\* a secret cannot be read under another key
C9_Witness ==
    /\ \E r1, r2 \in secrets :
          /\ r1.user_id = r2.user_id /\ r1.profile = r2.profile /\ r1.name # r2.name
          /\ \E k \in EncryptionKeys :
                DecryptCallResult(secrets, audit, decrypt_requests[r1.user_id],
                                  r1.user_id, r1.id, TRUE, "10.0.0.1", k, now,
                                  rate_limit_max).error = "DecryptionError"
    /\ \E u \in Users : RecordedInWindow(u) >= rate_limit_max
    /\ \E u \in Users, id \in SecretIds :
          GetSecretResult(secrets, u, id).error = "SecretNotFoundError"

RECURSIVE SectionPairs(_)
SectionPairs(sections) ==
    IF sections = <<>> THEN {}
    ELSE {<<Head(sections).profile_name, Head(sections).credentials[j].key>> :
              j \in 1..Len(Head(sections).credentials)}
         \cup SectionPairs(Tail(sections))

\* C10: for every store state and valid document, running import_yaml twice in a
\* row for one principal gives on the second run imported = 0 and updated = the
\* number of (profile, key) rows; the store then holds exactly one secret of the
\* principal per (name, profile) pair of the document, with the ids it had after
\* the first run.
C10_ImportTwice ==
    \A u \in Users, doc \in ValidDocs, ip \in Origins :
        LET first == ImportYamlResult(secrets, audit, next_id, u, doc, ip,
                                      encryption_key, now)
            second == ImportYamlResult(first.rows, first.log, first.nid, u, doc, ip,
                                       encryption_key, now)
            pairs == SectionPairs(doc.sections)
        IN  /\ second.error = None
            /\ second.imported = 0
            /\ second.updated = Cardinality(pairs)
            /\ \A pr \in pairs :
                   Cardinality({r \in second.rows : SameTriple(r, u, pr[2], pr[1])}) = 1
            /\ Ids(second.rows) = Ids(first.rows)

(***************************************************************************)
(* C11: failures of import_yaml are counted and skipped                    *)
(***************************************************************************)
RecognizedProfile(section) == section.profile_name \in SecretProfile

StringValue(cred) == cred.is_str

\* the section without its non-string values
StripSection(section) ==
    [section EXCEPT !.credentials = SelectSeq(@, StringValue)]

RECURSIVE StripSections(_)
StripSections(sections) ==
    IF sections = <<>> THEN <<>>
    ELSE IF RecognizedProfile(Head(sections))
    THEN <<StripSection(Head(sections))>> \o StripSections(Tail(sections))
    ELSE StripSections(Tail(sections))

\* the document without its unrecognized profiles and its non-string values
StripDoc(doc) == [doc EXCEPT !.sections = StripSections(@)]

\* the number of unrecognized profiles plus the number of non-string values in
\* the sections import_yaml walks through
RECURSIVE InvalidCount(_)
InvalidCount(sections) ==
    IF sections = <<>> THEN 0
    ELSE (IF ~RecognizedProfile(Head(sections)) THEN 1
          ELSE IF ~Head(sections).is_dict THEN 0
          ELSE Len(Head(sections).credentials)
               - Len(SelectSeq(Head(sections).credentials, StringValue)))
         + InvalidCount(Tail(sections))

ParsedDocs == {doc \in Docs : doc.parses /\ doc.is_dict}

\* C11: in every store state, importing a parsed document does to the store and
\* the audit trail exactly what importing the same document without its
\* unrecognized profiles and non-string values does (same secrets, same audit
\* entries, same imported and updated counts); each unrecognized profile and
\* each non-string value adds one to failed and one string to errors; and in
\* every outcome the number of error strings equals failed.
C11_FailuresCountedAndSkipped ==
    \A u \in Users, doc \in Docs, ip \in Origins :
        LET res == ImportYamlResult(secrets, audit, next_id, u, doc, ip,
                                    encryption_key, now)
            rest == ImportYamlResult(secrets, audit, next_id, u, StripDoc(doc), ip,
                                     encryption_key, now)
        IN  /\ Len(res.errors) = res.failed
            /\ doc \in ParsedDocs =>
                  /\ res.error = None
                  /\ res.rows = rest.rows
                  /\ res.log = rest.log
                  /\ res.nid = rest.nid
                  /\ res.imported = rest.imported
                  /\ res.updated = rest.updated
                  /\ res.failed = rest.failed + InvalidCount(doc.sections)
                  /\ Len(res.errors) = Len(rest.errors) + InvalidCount(doc.sections)

\* a document with an unrecognized profile and a non-string value ahead of a
\* row that is imported for one principal and updated for another
C11_Witness ==
    \E u1 \in Users, u2 \in Users, doc \in ParsedDocs, ip \in Origins :
        LET r1 == ImportYamlResult(secrets, audit, next_id, u1, doc, ip,
                                   encryption_key, now)
            r2 == ImportYamlResult(secrets, audit, next_id, u2, doc, ip,
                                   encryption_key, now)
        IN  /\ InvalidCount(doc.sections) >= 2
            /\ r1.failed >= 2 /\ r1.imported >= 1
            /\ r2.failed >= 2 /\ r2.updated >= 1

(***************************************************************************)
(* C12: when import_yaml fails as a whole                                  *)
(***************************************************************************)
\* C12: in every store state, import_yaml fails with YAMLImportError exactly
\* when the document does not parse or its root is not a mapping (rows that
\* fail inside a parsed document never make the call fail), and a failed call
\* returns the secrets, the audit trail and the id counter as it found them.
C12_FailsIffUnparseableOrNotMapping ==
    \A u \in Users, doc \in Docs, ip \in Origins :
        LET res == ImportYamlResult(secrets, audit, next_id, u, doc, ip,
                                    encryption_key, now)
        IN  /\ res.error \in {None, "YAMLImportError"}
            /\ (res.error = "YAMLImportError") <=> (~doc.parses \/ ~doc.is_dict)
            /\ res.error = "YAMLImportError" =>
                  /\ res.rows = secrets
                  /\ res.log = audit
                  /\ res.nid = next_id

\* a store with secrets and audit entries, given one document that does not
\* parse, one whose root is no mapping, and one that parses with failing rows
C12_Witness ==
    /\ secrets # {}
    /\ audit # <<>>
    /\ \E u \in Users, ip \in Origins :
          /\ \E doc \in Docs :
                /\ ~doc.parses
                /\ ImportYamlResult(secrets, audit, next_id, u, doc, ip,
                                    encryption_key, now).error = "YAMLImportError"
          /\ \E doc \in Docs :
                /\ doc.parses /\ ~doc.is_dict
                /\ ImportYamlResult(secrets, audit, next_id, u, doc, ip,
                                    encryption_key, now).error = "YAMLImportError"
          /\ \E doc \in Docs :
                LET res == ImportYamlResult(secrets, audit, next_id, u, doc, ip,
                                            encryption_key, now)
                IN  res.error = None /\ res.failed > 0 /\ res.rows # secrets

(***************************************************************************)
(* C13: what a masked read shows                                           *)
(***************************************************************************)
IsSubstring(a, b) ==
    \E i \in 1..(Len(b) - Len(a) + 1) : SubSeq(b, i, i + Len(a) - 1) = a

ReadFields ==
    {"id", "name", "key", "masked_value", "category", "profile", "created_at"}

\* a field of a read or of a stored row as text
FieldText(rec, f) ==
    IF f \in {"id", "created_at"} THEN DecimalText(rec[f]) ELSE rec[f]

\* what the row holds for a field of the read; for the value field, the mask
StoredText(r, f) == IF f = "masked_value" THEN MASK ELSE FieldText(r, f)

\* every masked read that create, get or list returns in the current state,
\* with the table it was read from
MaskedReads ==
    {[read |-> CreateSecretResult(secrets, audit, next_id, "u1", d, ip,
                                  encryption_key, now).ret,
      rows |-> CreateSecretResult(secrets, audit, next_id, "u1", d, ip,
                                  encryption_key, now).rows] :
        d \in {x \in MaskCreates :
                  CreateSecretResult(secrets, audit, next_id, "u1", x, "10.0.0.1",
                                     encryption_key, now).error = None},
        ip \in Origins}
    \cup
    {[read |-> x, rows |-> secrets] :
        x \in UNION {GetSecretResult(secrets, u, id).ret :
                         u \in Users, id \in SecretIds}}
    \cup
    {[read |-> x, rows |-> secrets] :
        x \in UNION {ListSecretsResult(secrets, u, c, p) :
                         u \in Users, c \in Categories \cup {None},
                         p \in Profiles \cup {None}}}

ReadSecret(m) == CHOOSE r \in m.rows : r.id = m.read.id

\* C13 as stated: every masked read returned by create, get and list carries
\* the mask "********", and unless the plaintext is the mask string no field of
\* it contains the secret's plaintext or its ciphertext as a substring.
C13_MaskingAsStated ==
    \A m \in MaskedReads :
        LET r == ReadSecret(m)
            plaintext == Decrypt(encryption_key, r.encrypted_value)
            ciphertext == TokenText(r.encrypted_value)
        IN  /\ m.read.masked_value = MASK
            /\ plaintext # MASK =>
                  \A f \in ReadFields :
                      /\ ~IsSubstring(plaintext, FieldText(m.read, f))
                      /\ ~IsSubstring(ciphertext, FieldText(m.read, f))

\* C13 (amended): every masked read returned by create, get and list has
\* exactly the fields id, name, key, masked_value, category, profile and
\* created_at, its masked_value is the mask "********", and the secret's
\* plaintext or ciphertext is a substring of one of its fields only where it is
\* a substring of the mask (for masked_value) or of what the secret's row holds
\* in that field (for the others).
C13_MaskedReadHidesValue ==
    \A m \in MaskedReads :
        LET r == ReadSecret(m)
            plaintext == Decrypt(encryption_key, r.encrypted_value)
            ciphertext == TokenText(r.encrypted_value)
        IN  /\ DOMAIN m.read = ReadFields
            /\ m.read.masked_value = MASK
            /\ \A x \in {plaintext, ciphertext}, f \in ReadFields :
                   IsSubstring(x, FieldText(m.read, f)) =>
                       IsSubstring(x, StoredText(r, f))

\* get and list return the reads of a secret whose value is its own name and of
\* one whose value occurs in no field, and a create is about to return one more
C13_Witness ==
    /\ \E m \in MaskedReads :
          /\ m.rows = secrets
          /\ Decrypt(encryption_key, ReadSecret(m).encrypted_value) = m.read.name
    /\ \E m \in MaskedReads :
          /\ m.rows = secrets
          /\ Decrypt(encryption_key, ReadSecret(m).encrypted_value) = "v1"
    /\ \E m \in MaskedReads : m.rows # secrets

(***************************************************************************)
(* C14: decrypt returns the value stored last                              *)
(***************************************************************************)
\* what an elevated decrypt of the secret by its owner returns from the given
\* tables when the limiter has a free slot; None when the call fails
DecryptValueIn(rows, log, id) ==
    LET r == CHOOSE x \in rows : x.id = id
        res == DecryptCallResult(rows, log, <<>>, r.user_id, id, TRUE,
                                 "10.0.0.1", encryption_key, now, rate_limit_max)
    IN  IF res.error = None THEN res.ret.value ELSE None

DecryptValue(id) == DecryptValueIn(secrets, audit, id)

\* after the step, decrypt returns v for the secret and what it returned before
\* for every other secret
StoredFor(id, v) ==
    /\ id \in Ids(secrets')
    /\ DecryptValueIn(secrets', audit', id) = v
    /\ \A o \in Ids(secrets') \ {id} :
           o \in Ids(secrets) /\ DecryptValueIn(secrets', audit', o) = DecryptValue(o)

NothingStored ==
    \A o \in Ids(secrets') :
        o \in Ids(secrets) /\ DecryptValueIn(secrets', audit', o) = DecryptValue(o)

\* the rows of a document that import_yaml does not reject outright
RECURSIVE ImportRows(_)
ImportRows(sections) ==
    IF sections = <<>> THEN {}
    ELSE (IF RecognizedProfile(Head(sections)) /\ Head(sections).is_dict
          THEN {[profile |-> Head(sections).profile_name,
                 key |-> Head(sections).credentials[j].key,
                 value |-> Head(sections).credentials[j].value] :
                    j \in {k \in 1..Len(Head(sections).credentials) :
                              Head(sections).credentials[k].is_str}}
          ELSE {})
         \cup ImportRows(Tail(sections))

\* C14: in every step of the service, a successful create makes an elevated
\* decrypt of the new secret return the created value; a successful update
\* whose patch carries a value makes it return that value, one without a value
\* leaves it as it was; an import_yaml row makes it return the row's value for
\* the principal's secret of that (name, profile), unless the row failed
\* because the principal holds several such secrets; delete and decrypt change
\* it for no remaining secret; and each of these steps leaves what decrypt
\* returns for every other secret unchanged.
C14_DecryptReturnsLastStored ==
    [][ /\ \A d \in ValueCreates, ip \in Origins :
              ( /\ CreateSecretResult(secrets, audit, next_id, "u1", d, ip,
                                      encryption_key, now).error = None
                /\ create_secret("u1", d, ip) )
              => StoredFor(next_id + 1, d.value)
        /\ \A id \in SecretIds, d \in ValuePatches, ip \in Origins :
              ( /\ UpdateSecretResult(secrets, audit, "u1", id, d, ip,
                                      encryption_key).error = None
                /\ update_secret("u1", id, d, ip) )
              => IF d.value # None THEN StoredFor(id, d.value) ELSE NothingStored
        /\ \A id \in SecretIds, ip \in Origins :
              (delete_secret("u1", id, ip) \/ decrypt_secret("u1", id, TRUE, ip))
              => NothingStored
        /\ \A doc \in ValueDocs, ip \in Origins :
              import_yaml("u1", doc, ip)
              => \A s \in secrets' :
                    LET hits == {row \in ImportRows(doc.sections) :
                                     row.key = s.name /\ row.profile = s.profile}
                        held == {r \in secrets :
                                     SameTriple(r, "u1", s.name, s.profile)}
                    IN  IF hits # {} /\ Cardinality(held) <= 1
                        THEN \A row \in hits : DecryptValueIn(secrets', audit', s.id) = row.value
                        ELSE /\ s.id \in Ids(secrets)
                             /\ DecryptValueIn(secrets', audit', s.id) = DecryptValue(s.id)
      ]_vars

\* a secret whose value was replaced: created with one value, now decrypting
\* to the other, next to a secret that still decrypts to its created value
C14_Witness ==
    /\ Len(audit) >= 3
    /\ \E i \in 1..Len(audit), j \in 1..Len(audit) :
          /\ i < j
          /\ audit[i].action_type = "CREATE"
          /\ audit[j].action_type = "UPDATE"
          /\ audit[j].secret_id = audit[i].secret_id
          /\ audit[i].secret_id \in Ids(secrets)
          /\ DecryptValue(audit[i].secret_id) = "v2"
    /\ \E o \in Ids(secrets) : DecryptValue(o) = "v1"

(***************************************************************************)
(* C15: delete commits the DELETE entry with the removal                   *)
(***************************************************************************)
\* the delete calls that have passed _log_audit and not yet committed
DeletePending(cs) ==
    {c \in Calls : cs[c].pc \in {"delete", "commit"} /\ cs[c].op = "delete"}

\* C15: in every step of concurrent create, update, delete and decrypt calls
\* (cancelled calls included), a committed row disappears only in a step that
\* commits a DELETE entry for it, while a committed DELETE entry exists its row
\* does not, and no committed DELETE entry disappears; and a delete call holds
\* its DELETE entry in the session from before it marks the row for deletion
\* until its one commit.
C15_DeleteEntryWithRemoval ==
    [][ /\ \A id \in SecretIds :
              /\ (id \in Ids(secrets) /\ id \notin Ids(secrets')) =>
                     Cardinality(Entries(audit', "DELETE", id)) =
                         Cardinality(Entries(audit, "DELETE", id)) + 1
              /\ Entries(audit', "DELETE", id) # {} => id \notin Ids(secrets')
              /\ Entries(audit, "DELETE", id) \subseteq Entries(audit', "DELETE", id)
        /\ \A c \in DeletePending(calls') :
              /\ Len(calls'[c].added) = 1
              /\ calls'[c].added[1].action_type = "DELETE"
              /\ calls'[c].added[1].secret_id = calls'[c].secret_id
      ]_vars

\* one secret was deleted and its DELETE entry is committed, while a delete of
\* another secret has recorded its entry and is about to commit
C15_Witness ==
    /\ \E id \in SecretIds : Entries(audit, "DELETE", id) # {} /\ id \notin Ids(secrets)
    /\ \E c \in DeletePending(calls) :
          /\ calls[c].pc = "commit"
          /\ calls[c].secret_id \in Ids(secrets)

(***************************************************************************)
(* C16: the rate limiter keeps principals apart                            *)
(***************************************************************************)
\* what the rate limiter would answer the principal, given the recorded
\* timestamps, the time and the configured limit
LimiterOutcome(requests, t, max_requests, user_id) ==
    LET rl == _check_rate_limit(requests[user_id], t, max_requests, rate_limit_window)
    IN  [error |-> rl.error, retry_after |-> rl.retry_after]

\* C16: in every decrypt call of a principal P, whether the limiter admits it,
\* rejects it or is not reached, the timestamps recorded for every other
\* principal Q are left as they were, and what the limiter would answer Q is
\* the same after P's call as before it.
C16_PrincipalsIndependent ==
    [][ \A p \in Users, id \in SecretIds, a \in BOOLEAN, ip \in Origins :
            decrypt_secret(p, id, a, ip) =>
                \A q \in Users \ {p} :
                    /\ decrypt_requests'[q] = decrypt_requests[q]
                    /\ LimiterOutcome(decrypt_requests', now', rate_limit_max', q) =
                           LimiterOutcome(decrypt_requests, now, rate_limit_max, q)
      ]_vars

\* both principals have recorded decrypts; the limiter rejects one of them and
\* admits the other
C16_Witness ==
    /\ rate_limit_max >= 1
    /\ \A u \in Users : decrypt_requests[u] # <<>>
    /\ \E p \in Users, q \in Users :
          /\ LimiterOutcome(decrypt_requests, now, rate_limit_max, p).error =
                 "RateLimitExceededError"
          /\ LimiterOutcome(decrypt_requests, now, rate_limit_max, q).error = None

(***************************************************************************)
(* C17: reads change nothing                                               *)
(***************************************************************************)
\* C17: every get call, whether it returns the masked read or fails with
\* SecretNotFoundError, and every list call leaves the rate limiter's recorded
\* timestamps, the audit trail and the stored secrets exactly as they were.
C17_ReadsChangeNothing ==
    [][ /\ \A u \in Users, id \in SecretIds :
              get_secret(u, id) => UNCHANGED <<decrypt_requests, audit, secrets>>
        /\ \A u \in Users, c \in Categories \cup {None}, p \in Profiles \cup {None} :
              list_secrets(u, c, p) => UNCHANGED <<decrypt_requests, audit, secrets>>
      ]_vars

\* a store with secrets, audit entries and recorded decrypts, in which one
\* get succeeds, another fails, and a list returns reads
C17_Witness ==
    /\ audit # <<>>
    /\ \E u \in Users : decrypt_requests[u] # <<>>
    /\ \E u \in Users, id \in SecretIds : GetSecretResult(secrets, u, id).error = None
    /\ \E u \in Users, id \in SecretIds :
          GetSecretResult(secrets, u, id).error = "SecretNotFoundError"
    /\ \E u \in Users : ListSecretsResult(secrets, u, None, None) # {}

(***************************************************************************)
(* C18: the audit trail is append-only                                     *)
(***************************************************************************)
\* C18: in every step of the service (create, get, list, update, delete,
\* decrypt, import_yaml, succeeding or failing) every audit entry committed
\* before the step is still in the trail after it, at its place and with all
\* its fields unchanged, the entries of deleted secrets included.
C18_AuditAppendOnly ==
    [][ /\ Len(audit') >= Len(audit)
        /\ SubSeq(audit', 1, Len(audit)) = audit
      ]_vars

\* the trail still holds the CREATE entry of a secret that was deleted, followed
\* by its DELETE entry and by an entry of a later operation
C18_Witness ==
    \E i \in 1..Len(audit), j \in 1..Len(audit) :
        /\ i < j /\ j < Len(audit)
        /\ audit[i].action_type = "CREATE"
        /\ audit[j].action_type = "DELETE"
        /\ audit[j].secret_id = audit[i].secret_id
        /\ audit[i].secret_id \notin Ids(secrets)

(***************************************************************************)
(* C19: loader priority                                                    *)
(***************************************************************************)
\* the place of a loader in the order Store-backed, Environment, File-based,
\* External-secret-manager
Rank(kind) ==
    CASE kind = "DatabaseLoader" -> 1
      [] kind = "EnvironmentLoader" -> 2
      [] kind = "ConfigFileLoader" -> 3
      [] kind = "AWSSecretLoader" -> 4

Resolved(c) == calls[c].pc = "done" /\ calls[c].op = "resolve"

Holders(call) ==
    {i \in 1..Len(call.loaders) : call.key \in DOMAIN call.loaders[i].credentials}

RoundTripDone(c) ==
    /\ calls[c].pc = "done"
    /\ calls[c].op = "round_trip"
    /\ calls[c].error # "ConfigurationError"

ForeignDone(c) == calls[c].pc = "done" /\ calls[c].op = "foreign"

TamperedDone(c) == calls[c].pc = "done" /\ calls[c].op = "tampered"

\* C21: decrypting a token with an engine constructed from a key-material
\* string other than the producer's fails with DecryptionError and returns no
\* plaintext, and so does decrypting a malformed or changed token.
C21_ForeignOrTamperedFails ==
    \A c \in Calls :
        (ForeignDone(c) \/ TamperedDone(c)) => calls[c].error = "DecryptionError"

\* where the two keys differ within the first 16 bytes of their encodings, and
\* where a change reaches the decoded bytes of the token, decryption fails
C21_FailsWhereSigningKeyOrBytesDiffer ==
    \A c \in Calls :
        /\ ( /\ ForeignDone(c)
             /\ SubSeq(_derive_fernet_key(calls[c].key), 1, 16)
                    # SubSeq(_derive_fernet_key(calls[c].other), 1, 16) )
           => calls[c].error = "DecryptionError"
        /\ (TamperedDone(c) /\ calls[c].how # "ignored_characters")
           => calls[c].error = "DecryptionError"

Cancelled(c) == calls[c].pc = "done" /\ calls[c].error = "CancelledError"

\* C23: a create or import_yaml call that its caller cancelled at one of its
\* awaits has committed nothing: no secret row, no re-encrypted value and no
\* audit entry.
C23_CancelledCommitsNothing ==
    \A c \in Calls :
        (Cancelled(c) /\ calls[c].op \in {"create", "import"})
            => calls[c].committed = 0

LimiterAsked(c) == calls[c].pc = "asked" /\ calls[c].op = "check"

\* the calls of the record admitted in the window of length rate_limit_window
\* that ends at t: those with t - window < timestamp <= t
AdmittedInWindow(c, t) ==
    {i \in 1..Len(calls[c].admitted) :
        /\ calls[c].admitted[i] > t - rate_limit_window
        /\ calls[c].admitted[i] <= t}

\* C24: sliding-window bound: for every principal and every time t, over a
\* clock that never runs backwards and after any sequence of calls at any
\* times, the calls the limiter admitted with timestamps in the trailing
\* window of length window_seconds ending at t number at most max_requests.
C24_SlidingWindowBound ==
    \A c \in Calls :
        LimiterAsked(c) =>
            \A t \in 0..LimiterHorizon :
                Cardinality(AdmittedInWindow(c, t)) <= rate_limit_max

\* on a service that admits one call per window, a principal was admitted
\* twice, the second time exactly one window after the first
C24_Witness ==
    \E c \in Calls :
        /\ LimiterAsked(c)
        /\ rate_limit_max = 1
        /\ Len(calls[c].admitted) = 2
        /\ calls[c].admitted[2] = calls[c].admitted[1] + rate_limit_window

\* C25: decrypt checks elevation, then the rate limit, then existence: a call
\* that is not elevated fails with AdminRequiredError whatever the window; an
\* elevated caller whose window is full gets RateLimitExceededError, also for
\* an id that does not exist or belongs to another principal; and
\* SecretNotFoundError is raised only to a call the limiter admitted.
C25_ElevationLimitExistence ==
    \A u \in Users, id \in SecretIds, ip \in Origins :
        LET plain == DecryptCallResult(secrets, audit, decrypt_requests[u], u, id,
                                       FALSE, ip, encryption_key, now, rate_limit_max)
            res == DecryptCallResult(secrets, audit, decrypt_requests[u], u, id,
                                     TRUE, ip, encryption_key, now, rate_limit_max)
            full == RecordedInWindow(u) >= rate_limit_max
        IN  /\ plain.error = "AdminRequiredError"
            /\ full => res.error = "RateLimitExceededError"
            /\ res.error = "SecretNotFoundError" =>
                   /\ ~full
                   /\ Len(res.requests) = RecordedInWindow(u) + 1
                   /\ res.requests[Len(res.requests)] = now

\* the timestamps of the principal that lie within the window ending now
PrunedRequests(user_id) == SelectSeq(decrypt_requests[user_id], InWindow)

\* C26: a decrypt call appends its timestamp to the caller's list exactly when
\* the caller is elevated and the limiter admits the call - whether the call
\* then succeeds or fails with SecretNotFoundError or DecryptionError; a call
\* that is not elevated and a call the limiter turns away append nothing.
C26_RecordedExactlyWhenAdmitted ==
    \A u \in Users, id \in SecretIds, a \in BOOLEAN, ip \in Origins,
       key \in EncryptionKeys :
        LET res == DecryptCallResult(secrets, audit, decrypt_requests[u], u, id,
                                     a, ip, key, now, rate_limit_max)
            admitted == a /\ RecordedInWindow(u) < rate_limit_max
        IN  IF admitted
            THEN /\ res.requests = Append(PrunedRequests(u), now)
                 /\ res.error \in {None, "SecretNotFoundError", "DecryptionError"}
            ELSE /\ res.requests \in {decrypt_requests[u], PrunedRequests(u)}
                 /\ res.error \notin {None, "SecretNotFoundError", "DecryptionError"}

\* a secret is stored and another id is not, so that admitted calls succeed,
\* fail with SecretNotFoundError and, under another key, with DecryptionError;
\* one principal's window is full, the other holds a timestamp that has left
\* the window
C26_Witness ==
    /\ rate_limit_max >= 1
    /\ secrets # {}
    /\ \E id \in SecretIds : id \notin Ids(secrets)
    /\ \E u \in Users : RecordedInWindow(u) >= rate_limit_max
    /\ \E u \in Users :
          /\ RecordedInWindow(u) < rate_limit_max
          /\ Len(decrypt_requests[u]) > RecordedInWindow(u)

\* C27: for every max_requests >= 0 and window_seconds >= 1, whenever the
\* count left after pruning is at least max_requests the limiter fails with
\* RateLimitExceededError and with no other error, and the error carries an
\* integer retry_after with 1 <= retry_after <= window_seconds + 1.
C27_RejectsWithBoundedRetryAfter ==
    \A c \in Calls :
        (LimiterAsked(c) /\ calls[c].count >= rate_limit_max) =>
            /\ calls[c].error = "RateLimitExceededError"
            /\ calls[c].retry_after \in 1..(WindowSeconds + 1)

\* the call before the principal's last one was turned away, and the last one
\* was made when the time told to wait had passed
RetryAfterPassed(c) ==
    /\ LimiterAsked(c)
    /\ calls[c].last.error = "RateLimitExceededError"
    /\ calls[c].at >= calls[c].last.at + calls[c].last.retry_after * TicksPerSecond

\* C28: when a call of principal P fails at time t with retry_after = r and P
\* makes no other call in between, P's next call, made at any time >= t + r,
\* is admitted (max_requests >= 1).
C28_AdmittedAfterRetryAfter ==
    \A c \in Calls :
        (RetryAfterPassed(c) /\ rate_limit_max >= 1) =>
            /\ calls[c].error = None
            /\ calls[c].admitted # <<>>
            /\ calls[c].admitted[Len(calls[c].admitted)] = calls[c].at

\* a principal was turned away with the window's oldest request made in the
\* same instant, waited the full retry_after and was admitted in the first
\* instant it allows
C28_Witness ==
    \E c \in Calls :
        /\ RetryAfterPassed(c)
        /\ rate_limit_max >= 1
        /\ calls[c].error = None
        /\ calls[c].last.at = calls[c].admitted[1]
        /\ calls[c].last.retry_after = WindowSeconds + 1
        /\ calls[c].at = calls[c].last.at + calls[c].last.retry_after * TicksPerSecond

\* the row a create call committed, if the store holds it
CreatedRow(c) ==
    {r \in secrets : calls[c].pc # "idle" /\ calls[c].op = "create"
                                        /\ calls[c].committed >= 1
                                        /\ r.id = calls[c].secret_id}

\* C29: when two create calls with the same principal, name and profile run
\* concurrently and interleave at their awaits, at most one of them commits a
\* secret and the other fails: the store never holds two secrets with that
\* triple.
C29_OneCreateWins ==
    /\ \A r1, r2 \in secrets :
          SameTriple(r1, r2.user_id, r2.name, r2.profile) => r1 = r2
    /\ \A c1, c2 \in Calls :
          c1 # c2 =>
              \A r1 \in CreatedRow(c1), r2 \in CreatedRow(c2) :
                  ~SameTriple(r1, r2.user_id, r2.name, r2.profile)

\* the id's CREATE entry comes before every other entry for the id
CreateEntryFirst(id) ==
    \A i \in 1..Len(audit) :
        (audit[i].secret_id = id /\ audit[i].action_type # "CREATE") =>
            \E j \in 1..(i - 1) :
                audit[j].secret_id = id /\ audit[j].action_type = "CREATE"

\* no UPDATE or DECRYPT entry for the id comes after its DELETE entry
NothingAfterDelete(id) ==
    \A i \in 1..Len(audit), j \in 1..Len(audit) :
        ( /\ i < j
          /\ audit[i].secret_id = id /\ audit[i].action_type = "DELETE"
          /\ audit[j].secret_id = id )
        => audit[j].action_type \notin {"UPDATE", "DECRYPT"}

\* C30: for every secret id, under any interleaving of concurrent calls, the
\* committed audit trail has the id's CREATE entry before every other entry
\* for the id, and no UPDATE or DECRYPT entry for the id after its DELETE entry.
C30_AuditOrderPerSecret ==
    \A id \in SecretIds : CreateEntryFirst(id) /\ NothingAfterDelete(id)

\* the profile update_secret checks the new name in
TargetProfile(secret, data) ==
    IF data.profile # None THEN data.profile ELSE secret.profile

\* C31: an update whose patch changes the name fails with DuplicateSecretError
\* exactly when a different secret of the same principal already has the new name
\* in the target profile (the patch's profile if given, else the secret's own);
\* on failure the secret keeps all its previous fields.
C31_RenameFailsIffNameHeld ==
    \A secret \in secrets, d \in UpdatePatches, ip \in Origins :
        (d.name # None /\ d.name # secret.name) =>
            LET res == UpdateSecretResult(secrets, audit, secret.user_id, secret.id,
                                          d, ip, encryption_key)
                held == \E r \in secrets :
                            /\ r.id # secret.id
                            /\ SameTriple(r, secret.user_id, d.name,
                                          TargetProfile(secret, d))
            IN  /\ res.error = "DuplicateSecretError" <=> held
                /\ ~held => res.error = None
                /\ res.error # None => res.rows = secrets

\* the fields of a secret a patch can name, besides the value
PatchFields == {"name", "key", "category", "profile"}

\* C32: a successful update changes only the fields present in the patch: the
\* ciphertext is replaced only when the patch carries a value (a later decrypt
\* returns the previous plaintext otherwise), and name, key, category, profile, id,
\* owner and created timestamp keep their values when absent from the patch; all
\* other secrets are unchanged.
C32_UpdateChangesOnlyPatchedFields ==
    \A secret \in secrets, d \in UpdatePatches, ip \in Origins :
        LET res == UpdateSecretResult(secrets, audit, secret.user_id, secret.id,
                                      d, ip, encryption_key)
            after == {r \in res.rows : r.id = secret.id}
            before == DecryptSecretResult(secrets, audit, secret.user_id, secret.id,
                                          ip, encryption_key)
            later == DecryptSecretResult(res.rows, res.log, secret.user_id,
                                         secret.id, ip, encryption_key)
        IN  res.error = None =>
                /\ Cardinality(after) = 1
                /\ res.rows \ after = secrets \ {secret}
                /\ \A updated \in after :
                      /\ updated.user_id = secret.user_id
                      /\ updated.created_at = secret.created_at
                      /\ \A f \in PatchFields :
                            d[f] = None => updated[f] = secret[f]
                      /\ d.value = None =>
                            /\ updated.encrypted_value = secret.encrypted_value
                            /\ later.error = before.error
                            /\ before.error = None =>
                                   later.ret.value = before.ret.value

\* a secret updated with a patch of key, value and category alone, next to
\* another secret the update left alone
C32_Witness ==
    \E r1, r2 \in secrets :
        /\ r1.key = "K" /\ r1.category = "AWS" /\ r1.encrypted_value.p = "v2"
        /\ r1.name = "A" /\ r1.profile = "production"
        /\ r2.id # r1.id /\ r2.key = r2.name /\ r2.encrypted_value.p = "v1"
        /\ Entries(audit, "UPDATE", r1.id) # {}

\* the client of record c got its response from the decrypt endpoint
Responded(c) == calls[c].pc = "responded" /\ calls[c].op = "api_decrypt"

\* C33: for decrypt requests issued through the decrypt endpoint by one principal,
\* once max_requests requests have been admitted within the window, the next
\* request within the window is rejected with status 429 and a Retry-After header.
C33_EndpointRejectsOverLimit ==
    \A c \in Calls :
        ( /\ Responded(c)
          /\ calls[c].is_superuser
          /\ Len(SelectSeq(calls[c].before,
                           LAMBDA ts : ts > calls[c].at - rate_limit_window))
                 >= DEFAULT_RATE_LIMIT_MAX )
        => (calls[c].status = 429 /\ calls[c].retry_after # None)

\* record c holds a ConfigFileLoader constructed from the path of a file that
\* exists and parses
FromPath(c) ==
    /\ calls[c].pc = "done" /\ calls[c].op = "ConfigFileLoader"
    /\ calls[c].filepath.given /\ calls[c].filepath.exists
    /\ calls[c].filepath.parses

\* the document uses the profile-sectioned shape but has no section of the profile
ProfileAbsent(root, profile) ==
    /\ root.t = "map"
    /\ profile \notin DOMAIN root.m
    /\ \E key \in DOMAIN root.m : key \in SecretProfile

\* what the loader serves for a document it accepts
ServedConfig(root, profile) ==
    IF root.t # "map" THEN EmptyConfig
    ELSE IF profile \in DOMAIN root.m
    THEN IF root.m[profile].t = "map" THEN root.m[profile].m ELSE EmptyConfig
    ELSE root.m

\* the condition raised for a document whose root is a sequence
MalformedDocument ==
    NewConfigFileLoader([given |-> TRUE, exists |-> TRUE, parses |-> TRUE,
                         root |-> YSeq], "default", NoConfig).error

\* C37 as stated: constructing the loader from a path fails with one and the same
\* malformed-document condition when the root is not a mapping and when the
\* document is profile-sectioned but the requested profile is absent; with a
\* distinct condition when the requested profile's value is not a mapping; and
\* otherwise serves the requested profile's mapping, or the whole root mapping.
C37_ConditionsAsStated ==
    \A c \in Calls :
        FromPath(c) =>
            LET root == calls[c].filepath.root
                profile == calls[c].profile
            IN  IF root.t # "map" \/ ProfileAbsent(root, profile)
                THEN calls[c].error = MalformedDocument
                ELSE IF profile \in DOMAIN root.m /\ root.m[profile].t # "map"
                THEN calls[c].error \notin {None, MalformedDocument}
                ELSE /\ calls[c].error = None
                     /\ calls[c].config = ServedConfig(root, profile)

\* C37: constructing the loader from a path fails with ValueError when the root is
\* neither empty nor a mapping and when the requested profile's value is neither
\* empty nor a mapping, with KeyError when the document is profile-sectioned but
\* the requested profile is absent, and otherwise serves the requested profile's
\* mapping (nothing if it is empty), or the whole root mapping of a flat document
\* (nothing for an empty document).
C37_FileLoaderConditions ==
    \A c \in Calls :
        FromPath(c) =>
            LET root == calls[c].filepath.root
                profile == calls[c].profile
            IN  IF root.t \notin {"null", "map"}
                THEN calls[c].error = "ValueError"
                ELSE IF ProfileAbsent(root, profile)
                THEN calls[c].error = "KeyError"
                ELSE IF /\ root.t = "map" /\ profile \in DOMAIN root.m
                        /\ root.m[profile].t \notin {"null", "map"}
                THEN calls[c].error = "ValueError"
                ELSE /\ calls[c].error = None
                     /\ calls[c].config = ServedConfig(root, profile)

\* a loader asked for the profile production of a document that has the sections
\* default and staging
C37_Witness ==
    \E c \in Calls :
        /\ FromPath(c)
        /\ calls[c].profile = "production"
        /\ calls[c].filepath.root.t = "map"
        /\ DOMAIN calls[c].filepath.root.m = {"default", "staging"}
        /\ calls[c].error = "KeyError"

\* the loader of record c, and the loader constructed the other way from the same
\* document and profile
LoaderOf(c) == [config |-> calls[c].config]

OtherWay(c) ==
    IF calls[c].filepath.given
    THEN NewConfigFileLoader(NoFile, calls[c].profile,
                             [given |-> TRUE, m |-> calls[c].filepath.root.m])
    ELSE NewConfigFileLoader([given |-> TRUE, exists |-> TRUE, parses |-> TRUE,
                              root |-> YMap(calls[c].given.m)],
                             calls[c].profile, NoConfig)

\* record c holds a ConfigFileLoader of a document whose root is a mapping
OfMapping(c) ==
    /\ calls[c].pc = "done" /\ calls[c].op = "ConfigFileLoader"
    /\ calls[c].error = None
    /\ calls[c].filepath.given => (FromPath(c) /\ calls[c].filepath.root.t = "map")

\* C38: for the same YAML document and requested profile, a loader constructed from
\* the pre-parsed mapping answers contains and get identically to one constructed
\* from the file path, for the flat and for the profile-sectioned shape.
C38_MappingAndPathAgree ==
    \A c \in Calls :
        (OfMapping(c) /\ OtherWay(c).error = None) =>
            \A key \in LoaderKeys :
                /\ ConfigFileContains(LoaderOf(c), key)
                       = ConfigFileContains(OtherWay(c), key)
                /\ ConfigFileGet(LoaderOf(c), key) = ConfigFileGet(OtherWay(c), key)

\* record c holds an AWSSecretLoader whose last call was get
AwsGot(c) ==
    /\ calls[c].pc = "loader" /\ calls[c].op = "AWSSecretLoader"
    /\ calls[c].last.op = "get"

\* C36: the cache holds, per key, only a value returned by a successful
\* default-version remote read; a default-version get of a cached key returns the
\* cached value without a remote call; a get with a version id or version-stage
\* label neither reads nor writes the cache; a failed or absent remote read adds
\* nothing to the cache.
C36_CacheOfDefaultVersion ==
    \A c \in Calls :
        (calls[c].pc = "loader" /\ calls[c].op = "AWSSecretLoader") =>
            /\ \A key \in DOMAIN calls[c]._cache :
                  <<key, calls[c]._cache[key]>> \in calls[c].reads
            /\ AwsGot(c) =>
                  LET last == calls[c].last
                      default == last.version_id = None
                                     /\ last.version_stage_label = None
                  IN  /\ (default /\ last.key \in DOMAIN last.cache) =>
                             /\ last.ret = last.cache[last.key]
                             /\ last.request = NoRequest
                             /\ calls[c]._cache = last.cache
                      /\ ~default =>
                             /\ last.request # NoRequest
                             /\ last.ret = ResponseValue(last.response)
                             /\ calls[c]._cache = last.cache
                      /\ (last.request # NoRequest /\ ResponseValue(last.response) = None)
                             => calls[c]._cache = last.cache

\* with "s1" cached for a key, a get of a version of the key returned the value
\* "s2" of the remote store and the cache still holds "s1"
C36_Witness ==
    \E c \in Calls :
        /\ AwsGot(c)
        /\ calls[c].last.version_id = "v1"
        /\ calls[c].last.key \in DOMAIN calls[c].last.cache
        /\ calls[c].last.cache[calls[c].last.key] = "s1"
        /\ calls[c].last.ret = "s2"
        /\ calls[c]._cache[calls[c].last.key] = "s1"

\* C35: in every store state reachable through create, update and import_yaml, the
\* Store-backed loader's suspending contains and get for any principal, profile and
\* key complete without error: contains yields a boolean and get yields the
\* decrypted value of the matching secret or absent.
C35_StoreLoaderNeverFails ==
    \A u \in Users, p \in Profiles, key \in StoreKeys :
        LET has == contains_async(secrets, u, p, key)
            got == get_async(secrets, u, p, encryption_key, key)
        IN  /\ has.error = None /\ has.ret \in BOOLEAN
            /\ got.error = None
            /\ got.ret # None =>
                   \E r \in secrets :
                       /\ r.key = key /\ r.user_id = u /\ r.profile = p
                       /\ got.ret = r.encrypted_value.p

\* record c holds a loader of the given class
Holds(c, class) ==
    /\ calls[c].pc \in {"done", "loader"}
    /\ calls[c].op = class

\* C34: for every loader variant and every key, contains(key) is true exactly when
\* get(key) returns a value rather than absent (so that resolution over a loader
\* list never stops at a loader that contains the key but yields no value).
C34_ContainsIffGetYields ==
    /\ \A c \in Calls :
          /\ (Holds(c, "ConfigFileLoader") /\ calls[c].error = None) =>
                \A key \in LoaderKeys :
                    ConfigFileContains(LoaderOf(c), key)
                        <=> ConfigFileGet(LoaderOf(c), key) # None
          /\ Holds(c, "EnvironmentLoader") =>
                \A key \in CredentialKeys :
                    EnvContains(calls[c].environ, key)
                        <=> EnvGet(calls[c].environ, key) # None
          /\ Holds(c, "AWSSecretLoader") =>
                \A key \in CredentialKeys, r \in RemoteSecrets :
                    AwsContains(calls[c]._cache, key, r.describe).ret
                        <=> AwsGet(calls[c]._cache, key, None, None, r.value).ret # None
    /\ \A u \in Users, p \in Profiles, key \in StoreKeys,
             encryption_service \in LoaderEncryptionServices :
          LET has == contains_async(secrets, u, p, key)
              got == get_async(secrets, u, p, encryption_service, key)
          IN  (has.error = None /\ got.error = None) =>
                  (has.ret <=> got.ret # None)

\* the principal's secrets of the category and the profile whose name or key
\* contains the search text, read without regard to case
LiteralMatches(user_id, category, profile, search) ==
    {r \in secrets :
        /\ r.user_id = user_id
        /\ (category # None => r.category = category)
        /\ (profile # None => r.profile = profile)
        /\ (search # None =>
               \/ IsSubstring(Lower(search), Lower(r.name))
               \/ IsSubstring(Lower(search), Lower(r.key)))}

\* C39: list(principal, category, profile, search) returns exactly the principal's
\* secrets that match the category and the profile and whose name or key contains
\* the search text as a case-insensitive literal substring (also for search texts
\* with "%" or "_"), ordered newest-created-first.
C39_ListMatchesLiterally ==
    \A u \in Users, c \in Categories \cup {None}, p \in Profiles \cup {None},
       search \in SearchTexts \cup {None} :
        \A result \in ListSecretsSearchResult(secrets, u, c, p, search) :
            /\ {result[i] : i \in 1..Len(result)}
                   = {_to_secret_read(r) : r \in LiteralMatches(u, c, p, search)}
            /\ Len(result) = Cardinality(LiteralMatches(u, c, p, search))
            /\ \A i, j \in 1..Len(result) :
                  i < j => result[i].created_at >= result[j].created_at

====
